---- MODULE Spec2Model ----
(***************************************************************************)
(* Forecast & insight engine of ChartInsight-AI.                           *)
(*                                                                         *)
(*   services/forecast_service.py  get_forecast_band,                      *)
(*                                 evaluate_forecast_accuracy              *)
(*   services/analysis_service.py  the decision-insight pipeline           *)
(*   services/llm_service.py       the optional LLM briefing               *)
(*   routers/forecast.py, routers/stocks.py   the HTTP boundary            *)
(*                                                                         *)
(* One behaviour is one invocation: a direct call of a service function    *)
(* or one HTTP request.  pc is the position inside the running function.   *)
(* Python identifiers that are not ASCII are transliterated:               *)
(*   결정인사이트_생성 -> build_decision_insight (the name routers/stocks.py   *)
(*   imports it under), _예측밴드_요약 -> forecast_band_summary,             *)
(*   _내러티브_작성 -> write_narrative, _알림_리스트 -> alert_list,            *)
(*   _기술지표_계산 -> compute_indicators, _vkospi_조회 -> vkospi_lookup,     *)
(*   _변동성점수_계산 -> volatility_score, _신뢰도점수_계산 ->                 *)
(*   confidence_score, _유동성보너스_계산 -> liquidity_bonus,                *)
(*   llm_브리핑_생성 -> llm_briefing.                                        *)
(* Prices and percentages are integers; a confidence level is held in      *)
(* percent (0.9 -> 90).                                                    *)
(***************************************************************************)
EXTENDS Integers, Sequences, FiniteSets, TLC

VARIABLES
    pc,              \* position of the running invocation
    req,             \* the top-level invocation: operation, caller, arguments
    fargs,           \* arguments of the active get_forecast_band call
    hist,            \* the DataFrame last returned by ticker.history
    fetches,         \* number of ticker.history calls made
    fits,            \* number of ARIMA(...).fit() calls made
    fout,            \* outcome of get_forecast_band
    aout,            \* outcome of evaluate_forecast_accuracy
    ind,             \* the indicator snapshot of the insight build
    band,            \* the band summary of the insight build (present = not None)
    rule_narrative,  \* dict returned by write_narrative
    rule_alerts,     \* list returned by alert_list
    llm_brief,       \* dict returned by llm_briefing
    llm_requests,    \* number of POSTs sent to the LLM service
    iout,            \* outcome of build_decision_insight
    response,        \* the HTTP response
    call,            \* a helper function applied on its own: its name, arguments, locals
    ret              \* what that function has returned so far

\* the state of a service invocation or HTTP request
service == <<pc, req, fargs, hist, fetches, fits, fout, aout, ind, band,
             rule_narrative, rule_alerts, llm_brief, llm_requests, iout, response>>

\* the state of a helper function applied on its own
helper == <<call, ret>>

vars == <<service, helper>>

(***************************************************************************)
(* Bounds of the model.                                                    *)
(***************************************************************************)
\* largest number of rows a fetched history has in a direct or HTTP call
MaxRows == 72
\* largest number of rows a history fetched during an insight build has
SubMaxRows == 9
\* largest number of NaN closes scattered in a history (besides all-NaN)
MaxNaN == 1
\* largest number of rows of a history get_forecast_band fetches when it is
\* called directly or by its HTTP handler
BandMaxRows == 11
\* number of consecutive calendar days, from Monday 2024-12-23 on, on which the
\* last observation of such a history can fall
LastDaySpan == 7

(***************************************************************************)
(* Program constants.                                                      *)
(***************************************************************************)
max_horizon == 21 * 6
DefaultConfPct == 90
DefaultHoldout == 63
DefaultOrder == <<1, 1, 1>>
MinSpare == 5
SummaryHorizon == 63
QueryDefault == 63
QueryGe == 1
QueryLe == 126
AlertLimit == 5
GapLimitPct == 6

Min(a, b) == IF a < b THEN a ELSE b

\* Python's sum() over the (p, d, q) tuple
sum(order) == order[1] + order[2] + order[3]

(***************************************************************************)
(* JSON / Python values that the narrative fields can hold.                *)
(* A string is the sequence of its parts, a list the sequence of its       *)
(* entries; "" and [] have no items.                                       *)
(***************************************************************************)
Null == [kind |-> "null", items |-> <<>>, n |-> 0]
Str(parts) == [kind |-> "str", items |-> parts, n |-> 0]
List(entries) == [kind |-> "list", items |-> entries, n |-> 0]
Bool(b) == [kind |-> "bool", items |-> <<>>, n |-> IF b THEN 1 ELSE 0]
Num(k) == [kind |-> "num", items |-> <<>>, n |-> k]

\* Python truthiness of a value: None, "", [], False and 0 are falsy
Truthy(v) ==
    CASE v.kind = "null" -> FALSE
      [] v.kind \in {"str", "list"} -> Len(v.items) > 0
      [] OTHER -> v.n # 0

\* Python's `a or b`
Or(a, b) == IF Truthy(a) THEN a ELSE b

\* dict.get(key): None when the key is missing
Get(d, k) == IF k \in DOMAIN d THEN d[k] ELSE Null

\* truthiness of a dict: only the empty dict is falsy
DictTruthy(d) == DOMAIN d # {}

\* {**a, **b}
Merge(a, b) == [k \in (DOMAIN a) \cup (DOMAIN b) |-> IF k \in DOMAIN b THEN b[k] ELSE a[k]]

(***************************************************************************)
(* Outcomes of a function call.                                            *)
(***************************************************************************)
NoOutcome == [status |-> "none", exc |-> "None", msg |-> "None"]

NoReq == [op |-> "none", via |-> "none", horizon |-> 0, conf |-> 0,
          holdout |-> 0, order |-> DefaultOrder]
NoArgs == [horizon |-> 0, conf |-> 0, order |-> DefaultOrder, caller |-> "none"]
\* no DataFrame held (before a fetch, or the frame that held it has returned)
NoHist == [rows |-> 0 - 1, nans |-> 0, last |-> 0]
NoResponse == [status_code |-> 0, detail |-> "None"]
\* no helper function is applied on its own
NoCall == [fn |-> "none"]
NoRet == <<>>

\* hist.empty
empty(h) == h.rows = 0
\* len(hist["Close"].dropna())
CloseLen(h) == h.rows - h.nans

\* the day 2024-12-23, a Monday, counted from day 1 = 2024-01-01
FirstLastDay == 336 + 22

\* the days close.index[-1] can be; only get_forecast_band reads the index, and
\* only its direct and HTTP callers read the dates it returns
LastDays == FirstLastDay..(FirstLastDay + LastDaySpan - 1)

\* the histories the price provider can return, up to cap rows, the last row
\* dated one of days
Histories(cap, days) ==
    {[rows |-> r, nans |-> k, last |-> d] : r \in 0..cap, k \in 0..MaxNaN, d \in days} \cup
    {[rows |-> r, nans |-> r, last |-> d] : r \in 0..cap, d \in days}

\* the histories a fetch of get_forecast_band ("insight", "direct", "http"), of
\* evaluate_forecast_accuracy ("accuracy") or of the insight build ("build")
\* can return
HistoriesFor(caller) ==
    {h \in Histories(CASE caller \in {"insight", "build"} -> SubMaxRows
                        [] caller \in {"direct", "http"} -> BandMaxRows
                        [] OTHER -> MaxRows,
                      IF caller \in {"direct", "http"} THEN LastDays
                      ELSE {FirstLastDay}) :
        h.nans <= h.rows}

(***************************************************************************)
(* The ARIMA library (statsmodels).  A fit either raises or yields a       *)
(* forecast; which one, and the numbers, are not decided by this code, so  *)
(* the outcome is a free choice.  A forecast is described by its mean      *)
(* level and the half-width of its confidence interval.                    *)
(***************************************************************************)
FitShapes == {[mean |-> 100, se |-> 2], [mean |-> 100, se |-> 12],
              [mean |-> 110, se |-> 5]}

\* alpha = 1 - conf, in percent
alpha(conf) == 100 - conf

\* the standard normal quantile function at q2 / 200, in hundredths, read from
\* the table entry at or below q2; it is odd about q2 = 100 (the median)
NormTable == <<<<100, 0>>, <<110, 13>>, <<120, 25>>, <<140, 52>>, <<150, 67>>,
               <<160, 84>>, <<180, 128>>, <<190, 164>>, <<195, 196>>, <<199, 258>>>>

RECURSIVE norm_ppf(_)
norm_ppf(q2) ==
    IF q2 < 100 THEN 0 - norm_ppf(200 - q2)
    ELSE LET below == {k \in 1..Len(NormTable) : NormTable[k][1] <= q2}
         IN NormTable[CHOOSE k \in below : \A j \in below : j <= k][2]

\* forecast_res.conf_int(alpha): the columns <<lower, upper>> of the interval
\* predicted_mean -/+ z * se with z the normal quantile at 1 - alpha / 2
conf_int(shape, a) ==
    LET margin == (norm_ppf(200 - a) * shape.se) \div 100
    IN <<shape.mean - margin, shape.mean + margin>>

\* band_columns with the two columns taken the other way round
band_columns_swapped(ci) == [lower |-> ci[2], upper |-> ci[1]]

\* lines 82-83: lower = conf_int.iloc[:, 0], upper = conf_int.iloc[:, 1]
band_columns(ci) == [lower |-> ci[1], upper |-> ci[2]]

(***************************************************************************)
(* Dates.  A date is the number of its day counted from day 1 = 2024-01-01 *)
(* (a Monday); a formatted date "YYYY-MM-DD" is the tuple of its three     *)
(* zero-padded fields, so that tuples compare as the strings do.           *)
(***************************************************************************)
\* Timestamp.weekday(): 0 is Monday, 6 is Sunday
weekday(d) == (d - 1) % 7

\* the "B" frequency: Monday to Friday, no holiday calendar
is_business_day(d) == weekday(d) < 5

\* a start that is no business day is rolled forward to the next one
RECURSIVE roll_forward(_)
roll_forward(d) == IF is_business_day(d) THEN d ELSE roll_forward(d + 1)

\* the business day k business days after the business day d: k calendar days
\* plus the two weekend days of every Friday passed
add_business_days(d, k) == d + k + 2 * ((weekday(d) + k) \div 5)

\* pd.date_range(start, periods=periods, freq="B")
date_range(start, periods) ==
    [i \in 1..periods |-> add_business_days(roll_forward(start), i - 1)]

\* days of the months of year y
month_days(y) ==
    <<31, IF y % 4 = 0 THEN 29 ELSE 28, 31, 30, 31, 30, 31, 31, 30, 31, 30, 31>>

\* the date that is day d of month m of year y, d possibly past the month's end
RECURSIVE normalize_date(_, _, _)
normalize_date(y, m, d) ==
    IF d <= month_days(y)[m] THEN <<y, m, d>>
    ELSE IF m = 12 THEN normalize_date(y + 1, 1, d - month_days(y)[m])
    ELSE normalize_date(y, m + 1, d - month_days(y)[m])

\* t.strftime("%Y-%m-%d")
strftime(d) == normalize_date(2024, 1, d)

\* future_start with the range started on the last observed date itself
future_start_same_day(last_date) == last_date

\* last_date + timedelta(days=1)
future_start(last_date) == last_date + 1

\* lines 77-101: the rows get_forecast_band builds by zipping the future index
\* with predicted_mean and the two interval columns
ForecastPoints(shape, steps, conf, last_date) ==
    LET cols == band_columns(conf_int(shape, alpha(conf)))
        future_index == date_range(future_start(last_date), steps)
    IN [i \in 1..steps |-> [time |-> strftime(future_index[i]), mean |-> shape.mean,
                            lower |-> cols.lower, upper |-> cols.upper]]

(***************************************************************************)
(* get_forecast_band                                                       *)
(***************************************************************************)
\* fb_param_error with the first check written `horizon < 0`
fb_param_error_zero_ok(horizon, conf) ==
    IF horizon < 0 THEN "horizon must be a positive integer"
    ELSE IF horizon > max_horizon THEN "horizon exceeds supported window"
    ELSE IF ~(0 < conf /\ conf < 100) THEN "conf must be between 0 and 1"
    ELSE "None"

\* the parameter checks before the try block; "None" when all pass
fb_param_error(horizon, conf) ==
    IF horizon <= 0 THEN "horizon must be a positive integer"
    ELSE IF horizon > max_horizon THEN "horizon exceeds supported window"
    ELSE IF ~(0 < conf /\ conf < 100) THEN "conf must be between 0 and 1"
    ELSE "None"

\* fb_data_error with the length check written `len(close) < sum(arima_order)`
fb_data_error_no_spare(h, order) ==
    IF empty(h) THEN "No historical data found"
    ELSE IF CloseLen(h) < sum(order) THEN "Not enough data to fit ARIMA model"
    ELSE "None"

\* fb_data_error without the `if hist.empty` check
fb_data_error_no_empty(h, order) ==
    IF CloseLen(h) < sum(order) + MinSpare THEN "Not enough data to fit ARIMA model"
    ELSE "None"

\* the checks on the fetched history; "None" when all pass
fb_data_error(h, order) ==
    IF empty(h) THEN "No historical data found"
    ELSE IF CloseLen(h) < sum(order) + MinSpare THEN "Not enough data to fit ARIMA model"
    ELSE "None"

NoForecast == [status |-> "none", exc |-> "None", msg |-> "None", points |-> <<>>]
ForecastRaised(e, m) == [status |-> "raised", exc |-> e, msg |-> m, points |-> <<>>]
ForecastReturned(pts) == [status |-> "returned", exc |-> "None", msg |-> "None", points |-> pts]

\* where control goes when get_forecast_band returns or raises
FbReturnPc ==
    CASE fargs.caller = "insight" -> "in_band"
      [] fargs.caller = "http" -> "http_out"
      [] OTHER -> "done"

\* lines 42-53: parameter validation
FbParams ==
    /\ pc = "fb_params"
    /\ LET e == fb_param_error(fargs.horizon, fargs.conf) IN
        IF e # "None"
        THEN fout' = ForecastRaised("ValueError", e) /\ pc' = FbReturnPc
        ELSE fout' = fout /\ pc' = "fb_fetch"
    /\ UNCHANGED helper
    /\ UNCHANGED <<req, fargs, hist, fetches, fits, aout, ind, band, rule_narrative,
                   rule_alerts, llm_brief, llm_requests, iout, response>>

\* lines 56-58: ticker.history(period)
FbFetch ==
    /\ pc = "fb_fetch"
    /\ \E h \in HistoriesFor(fargs.caller) : hist' = h
    /\ fetches' = fetches + 1
    /\ pc' = "fb_data"
    /\ UNCHANGED helper
    /\ UNCHANGED <<req, fargs, fits, fout, aout, ind, band, rule_narrative,
                   rule_alerts, llm_brief, llm_requests, iout, response>>

\* lines 60-71: empty history, too short a close series
FbData ==
    /\ pc = "fb_data"
    /\ LET e == fb_data_error(hist, fargs.order) IN
        IF e # "None"
        THEN fout' = ForecastRaised("ValueError", e) /\ pc' = FbReturnPc
        ELSE fout' = fout /\ pc' = "fb_fit"
    /\ UNCHANGED helper
    /\ UNCHANGED <<req, fargs, hist, fetches, fits, aout, ind, band, rule_narrative,
                   rule_alerts, llm_brief, llm_requests, iout, response>>

\* lines 74-103: fit, forecast, build the rows; a library failure propagates
FbFit ==
    /\ pc = "fb_fit"
    /\ fits' = fits + 1
    /\ \/ fout' = ForecastRaised("ModelFitError", "model fit failed")
       \/ \E s \in FitShapes :
             fout' = ForecastReturned(
                        ForecastPoints(s, fargs.horizon, fargs.conf, hist.last))
    /\ pc' = FbReturnPc
    /\ UNCHANGED helper
    /\ UNCHANGED <<req, fargs, hist, fetches, aout, ind, band, rule_narrative,
                   rule_alerts, llm_brief, llm_requests, iout, response>>

(***************************************************************************)
(* evaluate_forecast_accuracy                                              *)
(***************************************************************************)
ev_param_error(holdout_days) ==
    IF holdout_days <= 0 THEN "holdout_days must be a positive integer"
    ELSE IF holdout_days > max_horizon THEN "holdout_days exceeds supported window"
    ELSE "None"

\* len(close.iloc[:-holdout_days]) for 0 < holdout_days < len(close)
TrainLen(h, holdout_days) == CloseLen(h) - holdout_days

\* train_positions taking the whole series
train_positions_all(h, holdout_days) == 1..CloseLen(h)

\* line 142: close.iloc[:-holdout_days], as positions in close
train_positions(h, holdout_days) == 1..(CloseLen(h) - holdout_days)

\* line 143: close.iloc[-holdout_days:], as positions in close
test_positions(h, holdout_days) ==
    {d \in 1..CloseLen(h) : d > CloseLen(h) - holdout_days}

\* ev_data_error without the check of the training length
ev_data_error_no_train(h, holdout_days, order) ==
    IF empty(h) THEN "No historical data found"
    ELSE IF CloseLen(h) <= holdout_days THEN "Not enough data to evaluate accuracy"
    ELSE "None"

ev_data_error(h, holdout_days, order) ==
    IF empty(h) THEN "No historical data found"
    ELSE IF CloseLen(h) <= holdout_days THEN "Not enough data to evaluate accuracy"
    ELSE IF TrainLen(h, holdout_days) < sum(order) + MinSpare
         THEN "Not enough training data to fit ARIMA model"
    ELSE "None"

NoAccuracy == [status |-> "none", exc |-> "None", msg |-> "None",
               holdout_days |-> 0, train_points |-> 0, test_points |-> 0]
AccuracyRaised(e, m) == [status |-> "raised", exc |-> e, msg |-> m,
                         holdout_days |-> 0, train_points |-> 0, test_points |-> 0]
AccuracyReturned(hd, tr, te) == [status |-> "returned", exc |-> "None", msg |-> "None",
                                 holdout_days |-> hd, train_points |-> tr, test_points |-> te]

EvReturnPc == IF req.via = "http" THEN "http_out" ELSE "done"

\* lines 119-126
EvParams ==
    /\ pc = "ev_params"
    /\ LET e == ev_param_error(req.holdout) IN
        IF e # "None"
        THEN aout' = AccuracyRaised("ValueError", e) /\ pc' = EvReturnPc
        ELSE aout' = aout /\ pc' = "ev_fetch"
    /\ UNCHANGED helper
    /\ UNCHANGED <<req, fargs, hist, fetches, fits, fout, ind, band, rule_narrative,
                   rule_alerts, llm_brief, llm_requests, iout, response>>

\* lines 129-130
EvFetch ==
    /\ pc = "ev_fetch"
    /\ \E h \in HistoriesFor("accuracy") : hist' = h
    /\ fetches' = fetches + 1
    /\ pc' = "ev_data"
    /\ UNCHANGED helper
    /\ UNCHANGED <<req, fargs, fits, fout, aout, ind, band, rule_narrative,
                   rule_alerts, llm_brief, llm_requests, iout, response>>

\* lines 132-150
EvData ==
    /\ pc = "ev_data"
    /\ LET e == ev_data_error(hist, req.holdout, req.order) IN
        IF e # "None"
        THEN aout' = AccuracyRaised("ValueError", e) /\ pc' = EvReturnPc
        ELSE aout' = aout /\ pc' = "ev_fit"
    /\ UNCHANGED helper
    /\ UNCHANGED <<req, fargs, hist, fetches, fits, fout, ind, band, rule_narrative,
                   rule_alerts, llm_brief, llm_requests, iout, response>>

\* lines 152-173: one fit on train, holdout_days steps, the error metrics
EvFit ==
    /\ pc = "ev_fit"
    /\ fits' = fits + 1
    /\ \/ aout' = AccuracyRaised("ModelFitError", "model fit failed")
       \/ aout' = AccuracyReturned(req.holdout,
                                   Cardinality(train_positions(hist, req.holdout)),
                                   Cardinality(test_positions(hist, req.holdout)))
    /\ pc' = EvReturnPc
    /\ UNCHANGED helper
    /\ UNCHANGED <<req, fargs, hist, fetches, fout, ind, band, rule_narrative,
                   rule_alerts, llm_brief, llm_requests, iout, response>>

(***************************************************************************)
(* Indicator snapshot and band summary of the insight build.               *)
(***************************************************************************)
\* comparisons of the float expression num / den with an integer k
FracLt(num, den, k) == IF den > 0 THEN num < k * den ELSE num > k * den
FracGt(num, den, k) == IF den > 0 THEN num > k * den ELSE num < k * den

\* a snapshot as _기술지표_계산 returns it: a market moving in direction dir
\* (-1 falling, 0 flat, 1 rising) with realized volatility hv, volume ratio vol
\* and the VKOSPI quote present or not (None, None)
Snapshot(dir, hv, vol, vk) ==
    [close |-> 100, sma20 |-> 100 + 5 * dir, sma60 |-> 100, sma_nan |-> FALSE,
     momentum20_pct |-> 10 * dir, hv20_pct |-> hv, mdd_pct |-> -10,
     macd_line |-> dir, macd_signal |-> 0, macd_hist |-> dir,
     rsi14 |-> 50 + 30 * dir, volume_ratio_pct |-> vol, psy10_pct |-> 50 + 20 * dir,
     vkospi_ok |-> vk,
     vkospi_level |-> IF vk THEN 20 ELSE 0,
     vkospi_change_pct |-> IF vk THEN 10 ELSE 0]

IndicatorSnapshots ==
    {Snapshot(dir, hv, vol, vk) :
        dir \in {-1, 0, 1}, hv \in {10, 30, 50}, vol \in {0, 50}, vk \in BOOLEAN}
    \cup {[Snapshot(0, 10, 0, FALSE) EXCEPT !.mdd_pct = -30]}

NoInd == Snapshot(0, 0, 0, FALSE)

NoBand == [present |-> FALSE, horizon_label |-> "None", upper |-> 0, lower |-> 0, center |-> 0]

\* _예측밴드_요약: None when get_forecast_band raised or returned no rows
forecast_band_summary(out) ==
    IF out.status # "returned" \/ Len(out.points) = 0 THEN NoBand
    ELSE LET pts == out.points
             ups == {pts[i].upper : i \in 1..Len(pts)}
             los == {pts[i].lower : i \in 1..Len(pts)}
         IN [present |-> TRUE, horizon_label |-> "3m ARIMA",
             upper |-> CHOOSE u \in ups : \A v \in ups : u >= v,
             lower |-> CHOOSE l \in los : \A v \in los : l <= v,
             center |-> pts[Len(pts)].mean]

(***************************************************************************)
(* _내러티브_작성: the rule-based narrative.                                 *)
(* Labels: "up" 우상향, "neutral" 중립, "down reversal" 하락 반전;            *)
(* risk "high" 높음, "mid" 중간, "low" 낮음.                                 *)
(***************************************************************************)
\* trend_bias with the bullish threshold written `ma_gap_pct > 10`
trend_bias_ten(i) ==
    IF i.sma_nan THEN "down reversal"
    ELSE IF i.sma60 = 0 THEN "neutral"
    ELSE IF FracGt(100 * (i.sma20 - i.sma60), i.sma60, 10) THEN "up"
    ELSE IF ~FracLt(100 * (i.sma20 - i.sma60), i.sma60, -1) THEN "neutral"
    ELSE "down reversal"

\* sma_nan: sma60 is NaN (fewer than 60 closes); NaN is truthy and every
\* comparison with the NaN gap is False
trend_bias(i) ==
    IF i.sma_nan THEN "down reversal"
    ELSE IF i.sma60 = 0 THEN "neutral"
    ELSE IF FracGt(100 * (i.sma20 - i.sma60), i.sma60, 1) THEN "up"
    ELSE IF ~FracLt(100 * (i.sma20 - i.sma60), i.sma60, -1) THEN "neutral"
    ELSE "down reversal"

macd_state(i) ==
    IF i.macd_hist > 0 /\ i.macd_line > i.macd_signal THEN "macd up" ELSE "macd down"

vol_state(i) ==
    IF i.volume_ratio_pct > 40 THEN "volume surge"
    ELSE IF i.volume_ratio_pct > 10 THEN "volume inflow"
    ELSE IF i.volume_ratio_pct > -15 THEN "volume average"
    ELSE "volume outflow"

risk_label(i) ==
    IF i.hv20_pct > 45 \/ i.mdd_pct < -25 THEN "high"
    ELSE IF i.hv20_pct > 25 THEN "mid"
    ELSE "low"

\* band_phrase testing the centre only
band_phrase_center_only(b) ==
    IF b.center = 0 /\ b.present THEN "no band information" ELSE "band width"

\* lines 236-241
band_phrase(b) ==
    IF b.present /\ b.center # 0 THEN "band width" ELSE "no band information"

up_actions == <<"up 1: buy dips", "up 2: watch volume breakout", "up 3: stop near lower band">>
down_actions == <<"down 1: reduce on rebound", "down 2: no chasing", "down 3: tight stop">>

\* write_narrative with the two action sets exchanged
write_narrative_swapped(i, b) ==
    [summary |-> Str(<<trend_bias(i), macd_state(i), risk_label(i), vol_state(i),
                       band_phrase(b)>>),
     risk_label |-> Str(<<risk_label(i)>>),
     quick_notes |-> List(<<"bollinger", "hv20 atr14", "volume flow", "rsi macd">>),
     actions |-> List(IF trend_bias(i) = "up" THEN down_actions ELSE up_actions)]

write_narrative(i, b) ==
    [summary |-> Str(<<trend_bias(i), macd_state(i), risk_label(i), vol_state(i),
                       band_phrase(b)>>),
     risk_label |-> Str(<<risk_label(i)>>),
     quick_notes |-> List(<<"bollinger", "hv20 atr14", "volume flow", "rsi macd">>),
     actions |-> List(IF trend_bias(i) = "up" THEN up_actions ELSE down_actions)]

NoNarrative == [summary |-> Null, risk_label |-> Null, quick_notes |-> Null, actions |-> Null]

(***************************************************************************)
(* _알림_리스트: the rule-based alerts, in generation order, cut to 5.       *)
(***************************************************************************)
When(cond, alert) == IF cond THEN <<alert>> ELSE <<>>

upper_gap_small(i, b) ==
    IF i.close = 0 THEN 0 < GapLimitPct
    ELSE FracLt(100 * (b.upper - i.close), i.close, GapLimitPct)

lower_gap_small(i, b) ==
    IF b.lower = 0 THEN 0 < GapLimitPct
    ELSE FracLt(100 * (i.close - b.lower), b.lower, GapLimitPct)

\* triggered_alerts with the band-width alert indented under `if lower_gap < 6`
triggered_alerts_nested(i, b) ==
    (IF b.present
     THEN When(upper_gap_small(i, b), "band upper") \o
          (IF lower_gap_small(i, b) THEN <<"band lower", "band width">> ELSE <<>>)
     ELSE <<>>) \o
    (IF i.momentum20_pct > 5 THEN <<"momentum up">>
     ELSE When(i.momentum20_pct < -5, "momentum down")) \o
    When(i.hv20_pct > 45, "extreme volatility") \o
    (IF i.macd_hist > 0 /\ i.macd_line > i.macd_signal THEN <<"macd up">>
     ELSE When(i.macd_hist < 0 /\ i.macd_line < i.macd_signal, "macd down")) \o
    (IF i.rsi14 >= 70 THEN <<"rsi overbought">>
     ELSE When(i.rsi14 <= 30, "rsi oversold")) \o
    When(i.volume_ratio_pct > 40, "volume surge") \o
    When(i.vkospi_ok /\ i.vkospi_level # 0 /\ i.vkospi_change_pct # 0
             /\ i.vkospi_change_pct > 5, "vkospi")

triggered_alerts(i, b) ==
    (IF b.present
     THEN When(upper_gap_small(i, b), "band upper") \o
          When(lower_gap_small(i, b), "band lower") \o <<"band width">>
     ELSE <<>>) \o
    (IF i.momentum20_pct > 5 THEN <<"momentum up">>
     ELSE When(i.momentum20_pct < -5, "momentum down")) \o
    When(i.hv20_pct > 45, "extreme volatility") \o
    (IF i.macd_hist > 0 /\ i.macd_line > i.macd_signal THEN <<"macd up">>
     ELSE When(i.macd_hist < 0 /\ i.macd_line < i.macd_signal, "macd down")) \o
    (IF i.rsi14 >= 70 THEN <<"rsi overbought">>
     ELSE When(i.rsi14 <= 30, "rsi oversold")) \o
    When(i.volume_ratio_pct > 40, "volume surge") \o
    When(i.vkospi_ok /\ i.vkospi_level # 0 /\ i.vkospi_change_pct # 0
             /\ i.vkospi_change_pct > 5, "vkospi")

\* Truncate written alerts[-5:]
Truncate_last(s) == SubSeq(s, Len(s) - Min(Len(s), AlertLimit) + 1, Len(s))

\* alerts[:5]
Truncate(s) == SubSeq(s, 1, Min(Len(s), AlertLimit))

alert_list(i, b) == List(Truncate(triggered_alerts(i, b)))

(***************************************************************************)
(* llm_브리핑_생성 (llm_service.py).                                         *)
(* A reply of the LLM service: the transport fails (timeout, connection    *)
(* error), or a response arrives with a status code and a body.  body is   *)
(* what the parsing steps make of it; parsed holds the value of each key   *)
(* of the content object, Null for a key that is missing or null.          *)
(***************************************************************************)
LlmTexts == {Null, Str(<<>>), Str(<<"llm summary">>)}
LlmLists(tag) == {Null, List(<<>>), List(<<tag, tag, tag>>)}
LlmAlerts == LlmLists("llm alert") \cup
             {List(<<"llm alert", "llm alert", "llm alert", "llm alert", "llm alert",
                     "llm alert">>)}

NoParsed == [summary |-> Null, quick_notes |-> Null, actions |-> Null, alerts |-> Null]

ParsedObjects ==
    [summary : LlmTexts, quick_notes : LlmLists("llm note") \ {List(<<>>)},
     actions : LlmLists("llm action") \ {List(<<>>)}, alerts : LlmAlerts]

LlmReplies ==
    {[transport |-> "error", status |-> 0, body |-> "none", parsed |-> NoParsed]} \cup
    {[transport |-> "ok", status |-> st, body |-> "none", parsed |-> NoParsed] :
        st \in {404, 500}} \cup
    {[transport |-> "ok", status |-> st, body |-> b, parsed |-> NoParsed] :
        st \in {200, 302},
        b \in {"not json", "no choices", "content not json", "content not object"}} \cup
    {[transport |-> "ok", status |-> st, body |-> "object", parsed |-> p] :
        st \in {200, 302}, p \in ParsedObjects}

Metadata(attempted, error, http_status) ==
    [attempted |-> Bool(attempted), error |-> error, http_status |-> http_status]

\* the exception the try block (lines 206-222) raises on a reply, "None" if none:
\* _http_post fails, raise_for_status on a status >= 400, resp.json() on a body
\* that is not JSON, data["choices"][0]["message"]["content"] on a missing key,
\* json.loads(content), parsed.get on a content that is no object
try_error(reply) ==
    IF reply.transport = "error" THEN "ConnectionError"
    ELSE IF 400 <= reply.status THEN "RuntimeError"
    ELSE IF reply.body = "not json" THEN "JSONDecodeError"
    ELSE IF reply.body = "no choices" THEN "KeyError"
    ELSE IF reply.body = "content not json" THEN "JSONDecodeError"
    ELSE IF reply.body = "content not object" THEN "AttributeError"
    ELSE "None"

\* the handler written `except (ConnectionError, RuntimeError)`
except_transport_only(e) == e \in {"ConnectionError", "RuntimeError"}

\* `except Exception`: every exception class the try block can raise derives from it
except_Exception(e) ==
    e \in {"ConnectionError", "RuntimeError", "JSONDecodeError", "KeyError",
           "AttributeError"}

\* metadata["http_status"] is set once _http_post has returned
http_status(reply) == IF reply.transport = "error" THEN Null ELSE Num(reply.status)

\* llm_briefing posting a second time when the first request fails
llm_briefing_retry(has_key, reply) ==
    IF ~has_key
    THEN [exc |-> "None", sent |-> 0,
          brief |-> Metadata(FALSE, Str(<<"OPENAI_API_KEY missing">>), Null)]
    ELSE IF try_error(reply) # "None"
    THEN [exc |-> "None", sent |-> 2,
          brief |-> Metadata(TRUE, Str(<<try_error(reply)>>), http_status(reply))]
    ELSE [exc |-> "None", sent |-> 1,
          brief |-> Merge([summary |-> reply.parsed.summary,
                           quick_notes |-> reply.parsed.quick_notes,
                           actions |-> reply.parsed.actions,
                           alerts |-> reply.parsed.alerts,
                           model |-> Str(<<"gpt-4o-mini">>),
                           latency_ms |-> Num(1)],
                          Metadata(TRUE, Null, http_status(reply)))]

\* llm_브리핑_생성: exc is the exception that escapes it ("None": it returns brief);
\* has_key is bool(OPENAI_API_KEY)
llm_briefing(has_key, reply) ==
    IF ~has_key
    THEN [exc |-> "None", sent |-> 0,
          brief |-> Metadata(FALSE, Str(<<"OPENAI_API_KEY missing">>), Null)]
    ELSE IF try_error(reply) # "None"
    THEN IF except_Exception(try_error(reply))
         THEN [exc |-> "None", sent |-> 1,
               brief |-> Metadata(TRUE, Str(<<try_error(reply)>>), http_status(reply))]
         ELSE [exc |-> try_error(reply), sent |-> 1,
               brief |-> Metadata(TRUE, Null, http_status(reply))]
    ELSE [exc |-> "None", sent |-> 1,
          brief |-> Merge([summary |-> reply.parsed.summary,
                           quick_notes |-> reply.parsed.quick_notes,
                           actions |-> reply.parsed.actions,
                           alerts |-> reply.parsed.alerts,
                           model |-> Str(<<"gpt-4o-mini">>),
                           latency_ms |-> Num(1)],
                          Metadata(TRUE, Null, http_status(reply)))]

NoBrief == Metadata(FALSE, Null, Null)

(***************************************************************************)
(* 결정인사이트_생성 (build_decision_insight)                                 *)
(***************************************************************************)
NoPayload == [narrative_source |-> "None", llm_model |-> Null, risk_label |-> Null,
              band |-> NoBand, summary |-> Null, quick_notes |-> Null,
              actions |-> Null, alerts |-> Null]

NoInsight == [status |-> "none", exc |-> "None", msg |-> "None", payload |-> NoPayload]
InsightRaised(e, m) == [status |-> "raised", exc |-> e, msg |-> m, payload |-> NoPayload]
InsightReturned(p) == [status |-> "returned", exc |-> "None", msg |-> "None", payload |-> p]

\* insight_payload with `x if x is not None else rule` in place of `x or rule`
NotNoneOr(a, b) == IF a.kind # "null" THEN a ELSE b

insight_payload_not_none(brief, narrative, alerts, b) ==
    IF DictTruthy(brief)
    THEN [narrative_source |-> "openai",
          llm_model |-> Get(brief, "model"),
          risk_label |-> narrative.risk_label,
          band |-> b,
          summary |-> NotNoneOr(Get(brief, "summary"), narrative.summary),
          quick_notes |-> NotNoneOr(Get(brief, "quick_notes"), narrative.quick_notes),
          actions |-> NotNoneOr(Get(brief, "actions"), narrative.actions),
          alerts |-> NotNoneOr(Get(brief, "alerts"), alerts)]
    ELSE [narrative_source |-> "rule",
          llm_model |-> Null,
          risk_label |-> narrative.risk_label,
          band |-> b,
          summary |-> narrative.summary,
          quick_notes |-> narrative.quick_notes,
          actions |-> narrative.actions,
          alerts |-> alerts]

\* insight_payload taking the risk label from the brief on the LLM path
insight_payload_llm_label(brief, narrative, alerts, b) ==
    IF DictTruthy(brief)
    THEN [narrative_source |-> "openai",
          llm_model |-> Get(brief, "model"),
          risk_label |-> Get(brief, "risk_label"),
          band |-> b,
          summary |-> Or(Get(brief, "summary"), narrative.summary),
          quick_notes |-> Or(Get(brief, "quick_notes"), narrative.quick_notes),
          actions |-> Or(Get(brief, "actions"), narrative.actions),
          alerts |-> Or(Get(brief, "alerts"), alerts)]
    ELSE [narrative_source |-> "rule",
          llm_model |-> Null,
          risk_label |-> narrative.risk_label,
          band |-> b,
          summary |-> narrative.summary,
          quick_notes |-> narrative.quick_notes,
          actions |-> narrative.actions,
          alerts |-> alerts]

\* lines 382-457: choose between the LLM brief and the rule-based narrative
insight_payload(brief, narrative, alerts, b) ==
    IF DictTruthy(brief)
    THEN [narrative_source |-> "openai",
          llm_model |-> Get(brief, "model"),
          risk_label |-> narrative.risk_label,
          band |-> b,
          summary |-> Or(Get(brief, "summary"), narrative.summary),
          quick_notes |-> Or(Get(brief, "quick_notes"), narrative.quick_notes),
          actions |-> Or(Get(brief, "actions"), narrative.actions),
          alerts |-> Or(Get(brief, "alerts"), alerts)]
    ELSE [narrative_source |-> "rule",
          llm_model |-> Null,
          risk_label |-> narrative.risk_label,
          band |-> b,
          summary |-> narrative.summary,
          quick_notes |-> narrative.quick_notes,
          actions |-> narrative.actions,
          alerts |-> alerts]

InReturnPc == IF req.via = "http" THEN "http_out" ELSE "done"

\* in_data_error without the `if hist.empty` check
in_data_error_no_empty(h) ==
    IF CloseLen(h) = 0 THEN "Close series is empty" ELSE "None"

\* line 325 and, inside _기술지표_계산, lines 67-69; "None" when both pass
in_data_error(h) ==
    IF empty(h) THEN "No historical data"
    ELSE IF CloseLen(h) = 0 THEN "Close series is empty"
    ELSE "None"

\* lines 323-328: fetch the history, reject an empty one, compute the indicators
InFetch ==
    /\ pc = "in_fetch"
    /\ fetches' = fetches + 1
    /\ \E h \in HistoriesFor("build") :
        /\ hist' = h
        /\ IF in_data_error(h) # "None"
           THEN /\ iout' = InsightRaised("ValueError", in_data_error(h))
                /\ pc' = InReturnPc
                /\ ind' = ind
           ELSE /\ \E s \in IndicatorSnapshots : ind' = s
                /\ iout' = iout
                /\ pc' = "in_band_call"
    /\ UNCHANGED helper
    /\ UNCHANGED <<req, fargs, fits, fout, aout, band, rule_narrative, rule_alerts,
                   llm_brief, llm_requests, response>>

\* line 335 entering _예측밴드_요약: get_forecast_band(symbol, horizon=63)
InBandCall ==
    /\ pc = "in_band_call"
    /\ fargs' = [horizon |-> SummaryHorizon, conf |-> DefaultConfPct,
                 order |-> DefaultOrder, caller |-> "insight"]
    /\ pc' = "fb_params"
    /\ UNCHANGED helper
    /\ UNCHANGED <<req, hist, fetches, fits, fout, aout, ind, band, rule_narrative,
                   rule_alerts, llm_brief, llm_requests, iout, response>>

\* lines 214-223: summarise the rows, or None on any exception; the history
\* get_forecast_band fetched and the rows it returned (band_points) were locals
\* and are gone when _예측밴드_요약 has returned
InBand ==
    /\ pc = "in_band"
    /\ band' = forecast_band_summary(fout)
    /\ hist' = NoHist
    /\ fout' = [fout EXCEPT !.points = <<>>]
    /\ pc' = "in_rule"
    /\ UNCHANGED helper
    /\ UNCHANGED <<req, fargs, fetches, fits, aout, ind, rule_narrative,
                   rule_alerts, llm_brief, llm_requests, iout, response>>

\* lines 360-361
InRule ==
    /\ pc = "in_rule"
    /\ rule_narrative' = write_narrative(ind, band)
    /\ rule_alerts' = alert_list(ind, band)
    /\ pc' = "in_llm"
    /\ UNCHANGED helper
    /\ UNCHANGED <<req, fargs, hist, fetches, fits, fout, aout, ind, band,
                   llm_brief, llm_requests, iout, response>>

\* lines 375-457: the LLM call, then the choice between the brief and the
\* rule-based narrative; an exception escaping the call is re-raised (458-460).
\* The key is read from the environment at import.
InBrief ==
    /\ pc = "in_llm"
    /\ \E has_key \in BOOLEAN, reply \in LlmReplies :
        LET r == llm_briefing(has_key, reply) IN
        /\ llm_requests' = llm_requests + r.sent
        /\ IF r.exc # "None"
           THEN /\ llm_brief' = llm_brief
                /\ iout' = InsightRaised(r.exc, "LLM call failed")
           ELSE /\ llm_brief' = r.brief
                /\ iout' = InsightReturned(
                              insight_payload(r.brief, rule_narrative, rule_alerts, band))
    /\ pc' = InReturnPc
    /\ UNCHANGED helper
    /\ UNCHANGED <<req, fargs, hist, fetches, fits, fout, aout, ind, band,
                   rule_narrative, rule_alerts, response>>

(***************************************************************************)
(* Direct calls of the service functions.                                  *)
(***************************************************************************)
HorizonValues == {-1, 0, 1, 2, max_horizon, max_horizon + 1}
ConfValues == {-10, 0, 50, DefaultConfPct, 100, 150}
OrderValues == {DefaultOrder, <<0, 0, 0>>, <<2, 1, 2>>}
HoldoutValues == {-1, 0, 1, 5, DefaultHoldout, max_horizon, max_horizon + 1}
HttpDayValues == {QueryGe - 1, QueryGe, QueryDefault, QueryLe, QueryLe + 1}

CallForecastBand(h, c, o) ==
    /\ pc = "idle"
    /\ req' = [op |-> "forecast", via |-> "direct", horizon |-> h, conf |-> c,
               holdout |-> 0, order |-> o]
    /\ fargs' = [horizon |-> h, conf |-> c, order |-> o, caller |-> "direct"]
    /\ pc' = "fb_params"
    /\ UNCHANGED helper
    /\ UNCHANGED <<hist, fetches, fits, fout, aout, ind, band, rule_narrative,
                   rule_alerts, llm_brief, llm_requests, iout, response>>

CallAccuracy(hd, o) ==
    /\ pc = "idle"
    /\ req' = [op |-> "accuracy", via |-> "direct", horizon |-> 0, conf |-> 0,
               holdout |-> hd, order |-> o]
    /\ pc' = "ev_params"
    /\ UNCHANGED helper
    /\ UNCHANGED <<fargs, hist, fetches, fits, fout, aout, ind, band, rule_narrative,
                   rule_alerts, llm_brief, llm_requests, iout, response>>

CallInsight ==
    /\ pc = "idle"
    /\ req' = [op |-> "insight", via |-> "direct", horizon |-> 0, conf |-> 0,
               holdout |-> 0, order |-> DefaultOrder]
    /\ pc' = "in_fetch"
    /\ UNCHANGED helper
    /\ UNCHANGED <<fargs, hist, fetches, fits, fout, aout, ind, band, rule_narrative,
                   rule_alerts, llm_brief, llm_requests, iout, response>>

(***************************************************************************)
(* The HTTP boundary (routers/forecast.py, routers/stocks.py).             *)
(***************************************************************************)
\* Query(..., ge=1, le=126): FastAPI answers 422 before the handler runs
query_ok(days) == QueryGe <= days /\ days <= QueryLe

ValidationResponse == [status_code |-> 422, detail |-> "validation error"]

\* try: return data / except Exception as e: raise HTTPException(500, str(e))
http_response(status, msg) ==
    IF status = "raised" THEN [status_code |-> 500, detail |-> msg]
    ELSE [status_code |-> 200, detail |-> "None"]

\* GET /api/forecast/{symbol}?horizon=h
HttpForecastBand(h) ==
    /\ pc = "idle"
    /\ req' = [op |-> "forecast", via |-> "http", horizon |-> h, conf |-> DefaultConfPct,
               holdout |-> 0, order |-> DefaultOrder]
    /\ IF query_ok(h)
       THEN /\ fargs' = [horizon |-> h, conf |-> DefaultConfPct, order |-> DefaultOrder,
                         caller |-> "http"]
            /\ pc' = "fb_params"
            /\ response' = response
       ELSE /\ fargs' = fargs
            /\ pc' = "done"
            /\ response' = ValidationResponse
    /\ UNCHANGED helper
    /\ UNCHANGED <<hist, fetches, fits, fout, aout, ind, band, rule_narrative,
                   rule_alerts, llm_brief, llm_requests, iout>>

\* GET /api/forecast/{symbol}/accuracy?holdout_days=hd
HttpForecastAccuracy(hd) ==
    /\ pc = "idle"
    /\ req' = [op |-> "accuracy", via |-> "http", horizon |-> 0, conf |-> 0,
               holdout |-> hd, order |-> DefaultOrder]
    /\ IF query_ok(hd)
       THEN pc' = "ev_params" /\ response' = response
       ELSE pc' = "done" /\ response' = ValidationResponse
    /\ UNCHANGED helper
    /\ UNCHANGED <<fargs, hist, fetches, fits, fout, aout, ind, band, rule_narrative,
                   rule_alerts, llm_brief, llm_requests, iout>>

\* GET /api/stocks/{symbol}/decision-insight
HttpDecisionInsight ==
    /\ pc = "idle"
    /\ req' = [op |-> "insight", via |-> "http", horizon |-> 0, conf |-> 0,
               holdout |-> 0, order |-> DefaultOrder]
    /\ pc' = "in_fetch"
    /\ UNCHANGED helper
    /\ UNCHANGED <<fargs, hist, fetches, fits, fout, aout, ind, band, rule_narrative,
                   rule_alerts, llm_brief, llm_requests, iout, response>>

\* the outcome of the service function the handler called
ServiceOutcome ==
    CASE req.op = "forecast" -> [status |-> fout.status, exc |-> fout.exc, msg |-> fout.msg]
      [] req.op = "accuracy" -> [status |-> aout.status, exc |-> aout.exc, msg |-> aout.msg]
      [] req.op = "insight" -> [status |-> iout.status, exc |-> iout.exc, msg |-> iout.msg]
      [] OTHER -> NoOutcome

\* the keys of the dict 결정인사이트_생성 returns (analysis_service.py 400-457)
PayloadKeys ==
    {"symbol", "last_price", "change_rate", "volatility_score", "volatility_label",
     "confidence", "confidence_label", "confidence_reason", "risk_label",
     "narrative_source", "llm_model", "llm_latency_ms", "band", "summary", "quick_notes",
     "actions", "alerts", "indicators", "oscillators", "sentiment"}

\* a value of the dict that the model does not follow
SomeValue == [kind |-> "value", items |-> <<>>, n |-> 0]

\* the returned dict, key by key
insight_dict(payload) ==
    [k \in PayloadKeys |-> IF k \in DOMAIN payload THEN payload[k] ELSE SomeValue]

\* the fields of the response model DecisionInsight (stocks.py 79-90)
DecisionInsightFields ==
    {"symbol", "last_price", "change_rate", "volatility_score", "confidence", "risk_label",
     "band", "summary", "quick_notes", "actions", "indicators"}

\* response_model=DecisionInsight: FastAPI serialises the declared fields of
\* the returned dict and leaves the other keys out
response_model(fields, d) == [k \in fields \cap DOMAIN d |-> d[k]]

\* the handler's try/except around the service call; the body of a successful
\* decision-insight answer goes through the response model
HttpRespond ==
    /\ pc = "http_out"
    /\ response' =
          IF req.op = "insight" /\ ServiceOutcome.status # "raised"
          THEN Merge(http_response(ServiceOutcome.status, ServiceOutcome.msg),
                     [body |-> response_model(DecisionInsightFields,
                                              insight_dict(iout.payload))])
          ELSE http_response(ServiceOutcome.status, ServiceOutcome.msg)
    /\ pc' = "done"
    /\ UNCHANGED helper
    /\ UNCHANGED <<req, fargs, hist, fetches, fits, fout, aout, ind, band,
                   rule_narrative, rule_alerts, llm_brief, llm_requests, iout>>

(***************************************************************************)
(* The specification.                                                      *)
(***************************************************************************)
\* no service invocation has started
Idle ==
    /\ pc = "idle"
    /\ req = NoReq
    /\ fargs = NoArgs
    /\ hist = NoHist
    /\ fetches = 0
    /\ fits = 0
    /\ fout = NoForecast
    /\ aout = NoAccuracy
    /\ ind = NoInd
    /\ band = NoBand
    /\ rule_narrative = NoNarrative
    /\ rule_alerts = Null
    /\ llm_brief = NoBrief
    /\ llm_requests = 0
    /\ iout = NoInsight
    /\ response = NoResponse

Init ==
    /\ Idle
    /\ call = NoCall
    /\ ret = NoRet

Next ==
    \/ \E h \in HorizonValues, c \in ConfValues, o \in OrderValues : CallForecastBand(h, c, o)
    \/ \E hd \in HoldoutValues, o \in OrderValues : CallAccuracy(hd, o)
    \/ CallInsight
    \/ \E h \in HttpDayValues : HttpForecastBand(h)
    \/ \E hd \in HttpDayValues : HttpForecastAccuracy(hd)
    \/ HttpDecisionInsight
    \/ FbParams \/ FbFetch \/ FbData \/ FbFit
    \/ EvParams \/ EvFetch \/ EvData \/ EvFit
    \/ InFetch \/ InBandCall \/ InBand \/ InRule \/ InBrief
    \/ HttpRespond

Spec == Init /\ [][Next]_vars

(***************************************************************************)
(* Floats.  A float is NaN or a number x counted in a unit the context     *)
(* fixes (quarters of a percent for hv20_pct, tenths for momentum, ...).   *)
(***************************************************************************)
NaN == [nan |-> TRUE, x |-> 0]
Float(x) == [nan |-> FALSE, x |-> x]

\* a > b on floats: False when either is NaN
Gt(a, b) == ~a.nan /\ ~b.nan /\ a.x > b.x

\* Python's max(a, b) and min(a, b): a, unless b > a (b < a)
py_max(a, b) == IF Gt(b, a) THEN b ELSE a
py_min(a, b) == IF Gt(a, b) THEN b ELSE a

\* round() of the fraction num / den, den > 0: to the nearest integer, a tie
\* to the even one
round(f) ==
    LET q == f.num \div f.den
        r == f.num % f.den
    IN IF 2 * r < f.den THEN q
       ELSE IF 2 * r > f.den THEN q + 1
       ELSE IF q % 2 = 0 THEN q ELSE q + 1

Max(a, b) == IF a > b THEN a ELSE b

\* int(max(0, min(100, v)))
clamp_score(v) == Max(0, Min(100, v))

(***************************************************************************)
(* _변동성점수_계산 (volatility_score)                                      *)
(***************************************************************************)
\* hv20_pct is counted in 1 / HvUnit percent
HvUnit == 4
\* largest and smallest hv20_pct, in percent, the function is applied to
MaxHv == 95
MinHv == 0 - 2

knots == <<5, 15, 30, 45, 60, 90>>

\* scores with the last two entries exchanged
scores_unsorted == <<10, 30, 55, 70, 100, 88>>

scores == <<10, 30, 55, 70, 88, 100>>

\* np.interp(x, knots, scores) at x = X / HvUnit, as a fraction: the end
\* values outside the knots, the chord between two knots inside
interp(X) ==
    IF X <= knots[1] * HvUnit THEN [num |-> scores[1], den |-> 1]
    ELSE IF X >= knots[Len(knots)] * HvUnit THEN [num |-> scores[Len(scores)], den |-> 1]
    ELSE LET j == CHOOSE k \in 1..(Len(knots) - 1) :
                      knots[k] * HvUnit <= X /\ X < knots[k + 1] * HvUnit
             width == (knots[j + 1] - knots[j]) * HvUnit
         IN [num |-> scores[j] * width + (scores[j + 1] - scores[j]) * (X - knots[j] * HvUnit),
             den |-> width]

volatility_score(hv20_pct) ==
    IF hv20_pct.nan THEN 0
    ELSE clamp_score(round(interp(hv20_pct.x)))

(***************************************************************************)
(* The score set of 결정인사이트_생성 (lines 330-341) with                     *)
(* _유동성보너스_계산 (liquidity_bonus) and _신뢰도점수_계산 (confidence_score). *)
(* momentum20_pct and momentum_score are counted in tenths, the liquidity  *)
(* bonus in tenths, volume_avg20 in thousands of shares.                   *)
(***************************************************************************)
\* line 330
trend_score(i) == IF Gt(i.sma20, i.sma60) THEN 70 ELSE 45

\* line 331: min(100, max(0, 50 + ind.momentum20_pct)), a float unless clamped
momentum_score(i) ==
    py_min(Float(1000),
           py_max(Float(0),
                  IF i.momentum20_pct.nan THEN NaN ELSE Float(500 + i.momentum20_pct.x)))

\* np.log10 of a power of ten
RECURSIVE log10(_)
log10(v) == IF v < 10 THEN 0 ELSE 1 + log10(v \div 10)

\* _유동성보너스_계산: 0 for None, NaN and a volume <= 0, else
\* min(8.0, max(0.0, log10(avg_volume) - 6) * 2.2)
liquidity_bonus(avg_volume) ==
    IF avg_volume.nan \/ avg_volume.x <= 0 THEN 0
    ELSE Min(80, Max(0, 3 + log10(avg_volume.x) - 6) * 22)

\* lines 336-338: (band.upper - band.lower) / band.center, or 0.0
band_range_pct(b) ==
    IF b.present /\ b.center # 0
    THEN IF b.center > 0 THEN [num |-> b.upper - b.lower, den |-> b.center]
         ELSE [num |-> b.lower - b.upper, den |-> 0 - b.center]
    ELSE [num |-> 0, den |-> 1]

\* line 194: max(0, volatility_score - 60) * 0.35, in thousandths
volatility_penalty(volatility) == Max(0, volatility - 60) * 350

\* band_penalty taking the size of the range, whatever its sign
band_penalty_abs(band_range) ==
    Min(15 * band_range.den, 100 * (IF band_range.num < 0 THEN 0 - band_range.num
                                    ELSE band_range.num))

\* line 195: min(15, max(0, band_range_pct * 100)) if band_range_pct else 0,
\* times the denominator of band_range_pct
band_penalty(band_range) ==
    IF band_range.num = 0 THEN 0
    ELSE Min(15 * band_range.den, Max(0, 100 * band_range.num))

\* _신뢰도점수_계산; round() raises ValueError on a NaN
confidence_score(trend, momentum, volatility, band_range, liquidity) ==
    IF momentum.nan THEN [exc |-> "ValueError", score |-> 0]
    ELSE LET parts == (trend - 50) * 320 + (momentum.x - 500) * 25 + liquidity * 100
                      - volatility_penalty(volatility)
         IN [exc |-> "None",
             score |-> clamp_score(round(
                 [num |-> (62000 + parts) * band_range.den
                          - band_penalty(band_range) * 1000,
                  den |-> 1000 * band_range.den]))]

\* lines 330-341 on the snapshot i and the band summary b
score_set(i, b) ==
    LET confidence == confidence_score(trend_score(i), momentum_score(i),
                                       volatility_score(i.hv20_pct), band_range_pct(b),
                                       liquidity_bonus(i.volume_avg20))
    IN [exc |-> confidence.exc,
        trend_score |-> trend_score(i),
        momentum_score |-> momentum_score(i),
        volatility_score |-> volatility_score(i.hv20_pct),
        confidence |-> confidence.score]

\* the band summaries of the fitted shapes at the default confidence level
BandSummaries ==
    {forecast_band_summary(ForecastReturned(
         ForecastPoints(s, 1, DefaultConfPct, FirstLastDay))) : s \in FitShapes}

\* the snapshot fields the scores read: moving averages that are NaN for a
\* short history, a momentum that is whole, fractional, beyond +/-50% or NaN,
\* a volatility on or off the knots or NaN, a volume that is NaN, 0 or a power
\* of ten
ScoreSnapshots ==
    [sma20 : {NaN, Float(100), Float(105)},
     sma60 : {NaN, Float(100)},
     momentum20_pct : {NaN, Float(0 - 700), Float(0 - 37), Float(0), Float(37), Float(120),
                       Float(700)},
     hv20_pct : {NaN, Float(0), Float(30 * HvUnit), Float(70 * HvUnit + 1),
                 Float(MaxHv * HvUnit)},
     volume_avg20 : {NaN, Float(0), Float(100), Float(10000), Float(10000000)}]

\* the pairs of volatilities the score is compared on: x and a larger one
HvSteps == {1, 3, 10 * HvUnit}

HvPairs ==
    {<<Float(x), Float(x + d)>> : x \in (MinHv * HvUnit)..(MaxHv * HvUnit), d \in HvSteps}
    \cup {<<NaN, NaN>>}

\* apply _변동성점수_계산 to the next argument
ApplyVolatilityScore ==
    /\ call.fn = "volatility_score"
    /\ Len(ret) < Len(call.args)
    /\ ret' = Append(ret, volatility_score(call.args[Len(ret) + 1]))
    /\ UNCHANGED call
    /\ UNCHANGED service

\* compute the score set of one snapshot and band summary
ApplyScoreSet ==
    /\ call.fn = "score_set"
    /\ Len(ret) < Len(call.args)
    /\ ret' = Append(ret, score_set(call.args[1].ind, call.args[1].band))
    /\ UNCHANGED call
    /\ UNCHANGED service

\* argument lists of _신뢰도점수_계산: momentum_score and liquidity_bonus in
\* tenths, band_range_pct as a fraction (0.0 for a missing band)
ConfidenceArgs ==
    [trend : {45, 70}, momentum : {0, 463, 500, 537, 1000},
     volatility : {10, 60, 61, 76, 100},
     band_range : {[num |-> n, den |-> 100] : n \in {0 - 6, 0, 6, 10, 15, 38}}
                  \cup {[num |-> 1, den |-> 300]},
     liquidity : {0, 22, 80}]

\* the pairs of argument lists that differ in one argument
ConfidencePairs ==
    {p \in ConfidenceArgs \X ConfidenceArgs :
        Cardinality({f \in DOMAIN p[1] : p[1][f] # p[2][f]}) = 1}

\* _신뢰도점수_계산 applied to the next argument list
ApplyConfidenceScore ==
    /\ call.fn = "confidence_score"
    /\ Len(ret) < Len(call.args)
    /\ LET a == call.args[Len(ret) + 1]
       IN ret' = Append(ret, confidence_score(a.trend, Float(a.momentum), a.volatility,
                                              a.band_range, a.liquidity).score)
    /\ UNCHANGED call
    /\ UNCHANGED service

InitScores ==
    /\ Idle
    /\ ret = NoRet
    /\ \/ \E pair \in HvPairs : call = [fn |-> "volatility_score", args |-> pair]
       \/ \E pair \in ConfidencePairs : call = [fn |-> "confidence_score", args |-> pair]
       \/ \E i \in ScoreSnapshots, b \in BandSummaries \cup {NoBand} :
             call = [fn |-> "score_set", args |-> <<[ind |-> i, band |-> b]>>]

NextScores == ApplyVolatilityScore \/ ApplyScoreSet \/ ApplyConfidenceScore

SpecScores == InitScores /\ [][NextScores]_vars

(***************************************************************************)
(* _기술지표_계산 (compute_indicators) and _vkospi_조회 (vkospi_lookup).     *)
(* close is the Close column after dropna(), a sequence of positive        *)
(* prices.  A field that is a quotient is held as the fraction num / den.  *)
(* The record has the fields computed from the closes by sums, quotients   *)
(* and comparisons, and the two VKOSPI fields; the fields that need a      *)
(* standard deviation, an exponential average or another column (hv20_pct, *)
(* atr14, the Bollinger, MACD, RSI and volume fields) are not in it.       *)
(***************************************************************************)
\* largest number of closes of a series the indicators are computed from
MaxSeriesLen == 4

ClosePrices == {50, 100, 200}

RECURSIVE SeriesOfLen(_)
SeriesOfLen(n) ==
    IF n = 0 THEN {<<>>}
    ELSE {Append(c, p) : c \in SeriesOfLen(n - 1), p \in ClosePrices}

\* longer series: two closes, a flat stretch, two closes
LongSeries ==
    {<<a, b>> \o [k \in 1..(n - 4) |-> 100] \o <<c, d>> :
        a \in ClosePrices, b \in ClosePrices, c \in ClosePrices, d \in ClosePrices,
        n \in {13, 14, 15, 17}}

CloseSeries == UNION {SeriesOfLen(n) : n \in 0..MaxSeriesLen} \cup LongSeries

Frac(num, den) == [nan |-> FALSE, num |-> num, den |-> den]
FracNaN == [nan |-> TRUE, num |-> 0, den |-> 1]

RECURSIVE sum_last(_, _)
\* the sum of the last w entries of close
sum_last(close, w) ==
    IF w = 0 THEN 0
    ELSE close[Len(close)] + sum_last(SubSeq(close, 1, Len(close) - 1), w - 1)

\* close.rolling(window=w).mean().iloc[-1]: NaN until w closes are there
rolling_mean_last(close, w) ==
    IF Len(close) < w THEN FracNaN ELSE Frac(sum_last(close, w), w)

\* close.cummax() at position k
cummax(close, k) == CHOOSE m \in {close[j] : j \in 1..k} : \A j \in 1..k : close[j] <= m

\* the drawdown of the last close only
mdd_pct_last(close) ==
    Frac((close[Len(close)] - cummax(close, Len(close))) * 100, cummax(close, Len(close)))

\* lines 86-88: (close / close.cummax() - 1).min() * 100, taken at the first
\* position where the quotient is least
mdd_pct(close) ==
    LET least(k) == \A j \in 1..Len(close) :
                        close[k] * cummax(close, j) <= close[j] * cummax(close, k)
        k == CHOOSE i \in 1..Len(close) : least(i) /\ \A j \in 1..(i - 1) : ~least(j)
    IN Frac((close[k] - cummax(close, k)) * 100, cummax(close, k))

\* line 121: the share of rising days among the last 10 differences, in
\* percent, or 50.0 for fewer than 10 closes; the first difference is NaN
psy10_pct(close) ==
    IF Len(close) >= 10
    THEN Frac(100 * Cardinality({j \in (Len(close) - 9)..Len(close) :
                                   j > 1 /\ close[j] > close[j - 1]}), 10)
    ELSE Frac(50, 1)

\* what the quote service answers for ^VKOSPI: no rows or a failure (None,
\* None), or the last level with its daily change in percent
VkospiQuotes ==
    {[ok |-> FALSE, level |-> 0, change_pct |-> 0]} \cup
    {[ok |-> TRUE, level |-> l, change_pct |-> c] : l \in {20, 25}, c \in {0, 10}}

RsiWindow == 14

\* lines 105-107: delta = close.diff(); gain = delta.where(delta > 0, 0.0) and
\* loss = -delta.where(delta < 0, 0.0): the NaN of the first position becomes 0
gain(close, k) == IF k < 2 THEN 0 ELSE Max(close[k] - close[k - 1], 0)
loss(close, k) == IF k < 2 THEN 0 ELSE Max(close[k - 1] - close[k], 0)

\* 14 times rolling(window=14).mean() of gain (of loss) at position p >= 14
RECURSIVE window_gain(_, _, _)
window_gain(close, p, w) ==
    IF w = 0 THEN 0 ELSE gain(close, p) + window_gain(close, p - 1, w - 1)

RECURSIVE window_loss(_, _, _)
window_loss(close, p, w) ==
    IF w = 0 THEN 0 ELSE loss(close, p) + window_loss(close, p - 1, w - 1)

\* line 110: rs = avg_gain / avg_loss at position p is NaN before the first full
\* window and where both averages are 0 (0 / 0); it is inf where only avg_loss is 0
rs_is_nan(close, p) ==
    \/ p < RsiWindow
    \/ window_gain(close, p, RsiWindow) = 0 /\ window_loss(close, p, RsiWindow) = 0

\* line 111: 100 - 100 / (1 + rs.iloc[-1]) if rs has a value that is not NaN,
\* else 50.0; with rs = g / l it is 100 * g / (g + l), and 100 for rs = inf
rsi14(close) ==
    LET n == Len(close)
        g == window_gain(close, n, RsiWindow)
        l == window_loss(close, n, RsiWindow)
    IN IF \A p \in 1..n : rs_is_nan(close, p) THEN Frac(50, 1)
       ELSE IF rs_is_nan(close, n) THEN FracNaN
       ELSE IF l = 0 THEN Frac(100, 1)
       ELSE Frac(100 * g, g + l)

\* _기술지표_계산 on the closes, with the answer _vkospi_조회 got at line 123
compute_indicators(close, quote) ==
    IF Len(close) = 0
    THEN [exc |-> "ValueError", msg |-> "Close series is empty"]
    ELSE LET last_close == close[Len(close)]
             prev_close == IF Len(close) > 1 THEN close[Len(close) - 1] ELSE last_close
         IN [exc |-> "None", msg |-> "None",
             close |-> last_close,
             change_rate |-> IF prev_close # 0
                             THEN Frac((last_close - prev_close) * 100, prev_close)
                             ELSE Frac(0, 1),
             sma20 |-> rolling_mean_last(close, 20),
             sma60 |-> rolling_mean_last(close, 60),
             momentum20_pct |-> IF Len(close) > 21
                                THEN Frac((last_close - close[Len(close) - 20]) * 100,
                                          close[Len(close) - 20])
                                ELSE Frac(0, 1),
             mdd_pct |-> mdd_pct(close),
             rsi14 |-> rsi14(close),
             psy10_pct |-> psy10_pct(close),
             vkospi_ok |-> quote.ok,
             vkospi_level |-> quote.level,
             vkospi_change_pct |-> quote.change_pct]

\* one invocation of _기술지표_계산 on the next argument; the VKOSPI quote is
\* fetched anew in every invocation
ApplyIndicators ==
    /\ call.fn = "compute_indicators"
    /\ Len(ret) < Len(call.args)
    /\ \E quote \in VkospiQuotes :
          ret' = Append(ret, compute_indicators(call.args[Len(ret) + 1], quote))
    /\ UNCHANGED call
    /\ UNCHANGED service

\* two invocations on the same series
InitIndicators ==
    /\ Idle
    /\ ret = NoRet
    /\ \E close \in CloseSeries : call = [fn |-> "compute_indicators", args |-> <<close, close>>]

NextIndicators == ApplyIndicators

SpecIndicators == InitIndicators /\ [][NextIndicators]_vars

(***************************************************************************)
(* _내러티브_작성 and _알림_리스트 applied on their own, to snapshots whose   *)
(* fields vary independently.                                              *)
(***************************************************************************)
\* 300 daily closes rising evenly from 100 to 130, counted in 1/299
RisingCloses == [k \in 1..300 |-> 29900 + 30 * (k - 1)]

\* the moving averages of a series, both counted in 1/60 of the price unit
SmaOf(close) ==
    [sma20 |-> 3 * sum_last(close, 20), sma60 |-> sum_last(close, 60), sma_nan |-> FALSE]

\* sma20 and sma60 with a gap of 0%, 0.5%, 1%, 2%, -0.5%, -1% and -2%, both NaN
\* (a short history), and those of the rising closes
SmaPairs ==
    {[sma20 |-> a, sma60 |-> b, sma_nan |-> FALSE] :
        <<a, b>> \in {<<100, 100>>, <<201, 200>>, <<101, 100>>, <<102, 100>>,
                      <<199, 200>>, <<99, 100>>, <<98, 100>>}}
    \cup {[sma20 |-> 0, sma60 |-> 0, sma_nan |-> TRUE], SmaOf(RisingCloses)}

RuleSnapshot(sma, mom, hv, mdd, macd, rsi, vol, quote) ==
    [close |-> 100, sma20 |-> sma.sma20, sma60 |-> sma.sma60, sma_nan |-> sma.sma_nan,
     momentum20_pct |-> mom, hv20_pct |-> hv, mdd_pct |-> mdd,
     macd_line |-> macd, macd_signal |-> 0, macd_hist |-> macd,
     rsi14 |-> rsi, volume_ratio_pct |-> vol, psy10_pct |-> 50,
     vkospi_ok |-> quote.ok, vkospi_level |-> quote.level,
     vkospi_change_pct |-> quote.change_pct]

NoQuote == [ok |-> FALSE, level |-> 0, change_pct |-> 0]

\* the snapshots the narrative is written for
NarrativeSnapshots ==
    {RuleSnapshot(sma, 0, hv, mdd, macd, 50, vol, NoQuote) :
        sma \in SmaPairs, hv \in {0, 30, 50}, mdd \in {0, 0 - 10, 0 - 30},
        macd \in {0 - 1, 1}, vol \in {0 - 20, 0, 20, 50}}

\* the snapshots the alerts are listed for
AlertSnapshots ==
    {RuleSnapshot([sma20 |-> 100, sma60 |-> 100, sma_nan |-> FALSE], mom, hv, 0 - 10,
                  macd, rsi, vol, quote) :
        mom \in {0 - 10, 0, 10}, hv \in {30, 50}, macd \in {0 - 1, 0, 1},
        rsi \in {20, 50, 80}, vol \in {0, 50}, quote \in VkospiQuotes}

\* a summary whose centre is 0 (band.center is falsy)
ZeroCenterBand ==
    [present |-> TRUE, horizon_label |-> "3m ARIMA", upper |-> 5, lower |-> 0 - 5, center |-> 0]

ApplyNarrative ==
    /\ call.fn = "write_narrative"
    /\ Len(ret) < Len(call.args)
    /\ ret' = Append(ret, write_narrative(call.args[1].ind, call.args[1].band))
    /\ UNCHANGED call
    /\ UNCHANGED service

ApplyAlerts ==
    /\ call.fn = "alert_list"
    /\ Len(ret) < Len(call.args)
    /\ ret' = Append(ret, alert_list(call.args[1].ind, call.args[1].band))
    /\ UNCHANGED call
    /\ UNCHANGED service

InitRules ==
    /\ Idle
    /\ ret = NoRet
    /\ \/ \E i \in NarrativeSnapshots, b \in BandSummaries \cup {NoBand, ZeroCenterBand} :
             call = [fn |-> "write_narrative", args |-> <<[ind |-> i, band |-> b]>>]
       \/ \E i \in AlertSnapshots, b \in BandSummaries \cup {NoBand} :
             call = [fn |-> "alert_list", args |-> <<[ind |-> i, band |-> b]>>]

NextRules == ApplyNarrative \/ ApplyAlerts

SpecRules == InitRules /\ [][NextRules]_vars

(***************************************************************************)
(* scripts/eval_forecast_band.py: evaluate_forecast_band, the walk-forward *)
(* evaluator.  A date is the position of its observation in the sorted     *)
(* close series.  A price the evaluator computes is a fraction num / den;  *)
(* scale_factor 1 and 2 stand for 1.0 and 2.0.  The printed rmse and mape  *)
(* are left out; the squared errors they are computed from are kept.       *)
(***************************************************************************)
MaxTestDays == 4
SpareDays == 30
OrderSpare == 5

ArimaOrders == {<<1, 1, 1>>, <<14, 1, 14>>}
ActualPrices == {97, 100, 120}
WalkShapes == {shape \in FitShapes : shape.se < 12}

WalkArgs ==
    [test_days : 1..MaxTestDays, conf : {80, 90}, arima_order : ArimaOrders,
     scale_factor : {1, 2}, use_empirical_band : BOOLEAN]

\* a close series of n observations whose last observations are the given tail
SeriesWithTail(n, tail) ==
    [k \in 1..n |-> IF k <= n - Len(tail) THEN 100 ELSE tail[k - (n - Len(tail))]]

RECURSIVE Tails(_)
Tails(n) ==
    IF n <= 0 THEN {<<>>}
    ELSE {Append(t, a) : t \in Tails(n - 1), a \in ActualPrices}

\* what ticker.history returns, NaN closes dropped and sorted by date: nothing,
\* a series of test_days + 30 closes, or one of test_days + 31
WalkHistories(test_days) ==
    {<<>>}
    \cup {SeriesWithTail(test_days + SpareDays, <<>>)}
    \cup {SeriesWithTail(test_days + SpareDays + 1, t) : t \in Tails(test_days - 1)}

\* line 45: close.index[-test_days:], as positions in close
test_index(close, test_days) ==
    IF test_days = 0 THEN [k \in 1..Len(close) |-> k]
    ELSE [k \in 1..test_days |-> Len(close) - test_days + k]

\* train_data reaching one observation past test_date
train_data_through_next(close, test_date) ==
    SubSeq(close, 1, Min(Len(close), test_date + 1))

\* line 53: close.loc[:test_date], the observations dated at or before test_date
train_data(close, test_date) == SubSeq(close, 1, test_date)

\* line 57
order_sum(arima_order) == arima_order[1] + arima_order[2] + arima_order[3]

\* lines 76-82: the band scaled about the mean, for any scale_factor but 1.0
calibrate(mean, lower, upper, scale_factor) ==
    IF scale_factor # 1
    THEN [lower |-> mean - (mean - lower) * scale_factor,
          upper |-> mean + (upper - mean) * scale_factor]
    ELSE [lower |-> lower, upper |-> upper]

\* inside_band with the two bounds excluded
inside_band_strict(lower, actual, upper) == lower < actual /\ actual < upper

\* line 97
inside_band(lower, actual, upper) == lower <= actual /\ actual <= upper

Abs(x) == IF x < 0 THEN 0 - x ELSE x

\* lines 106-119
make_record(test_date, next_date, actual, mean, b) ==
    [train_end |-> test_date, forecast_date |-> next_date, actual |-> actual,
     mean |-> mean, lower |-> Frac(b.lower, 1), upper |-> Frac(b.upper, 1),
     inside_band |-> inside_band(b.lower, actual, b.upper),
     abs_error |-> Abs(actual - mean),
     sq_error |-> (actual - mean) * (actual - mean),
     ape |-> Frac(100 * Abs(actual - mean), actual)]

FracLe(a, b) == a.num * b.den <= b.num * a.den

\* the sorted sequence s with the fraction x put in its place
RECURSIVE insert_sorted(_, _)
insert_sorted(s, x) ==
    IF s = <<>> THEN <<x>>
    ELSE IF FracLe(x, Head(s)) THEN <<x>> \o s
    ELSE <<Head(s)>> \o insert_sorted(Tail(s), x)

\* the values of a sequence of fractions in increasing order
RECURSIVE sort_values(_)
sort_values(v) ==
    IF v = <<>> THEN <<>> ELSE insert_sorted(sort_values(Tail(v)), Head(v))

\* Series.quantile(q) with linear interpolation, q200 = 200 * q
quantile(v, q200) ==
    LET sorted == sort_values(v)
        h200 == (Len(v) - 1) * q200
        lo == sorted[(h200 \div 200) + 1]
        g200 == h200 % 200
    IN IF g200 = 0 THEN lo
       ELSE LET hi == sorted[(h200 \div 200) + 2]
            IN Frac(200 * lo.num * hi.den + g200 * (hi.num * lo.den - lo.num * hi.den),
                    200 * lo.den * hi.den)

\* lines 131-152: lower, upper and inside_band replaced by the empirical band
empirical_band(records, conf) ==
    LET residuals_pct == [k \in 1..Len(records) |->
                             Frac(records[k].actual - records[k].mean, records[k].actual)]
        lower_q == quantile(residuals_pct, alpha(conf))
        upper_q == quantile(residuals_pct, 200 - alpha(conf))
    IN [k \in 1..Len(records) |->
           LET r == records[k]
               lower_emp == Frac(r.mean * (lower_q.den + lower_q.num), lower_q.den)
               upper_emp == Frac(r.mean * (upper_q.den + upper_q.num), upper_q.den)
           IN [r EXCEPT !.lower = lower_emp, !.upper = upper_emp,
                        !.inside_band = /\ r.actual * lower_emp.den >= lower_emp.num
                                        /\ r.actual * upper_emp.den <= upper_emp.num]]

RECURSIVE sum_field(_, _)
sum_field(df, f) == IF df = <<>> THEN 0 ELSE f[Head(df)] + sum_field(Tail(df), f)

\* line 157: df["inside_band"].mean() * 100
coverage(df) ==
    Frac(100 * Cardinality({k \in 1..Len(df) : df[k].inside_band}), Len(df))

\* lines 28-48: fetch the history, check it, start the loop
WfFetch ==
    /\ call.fn = "evaluate_forecast_band"
    /\ call.pc = "fetch"
    /\ \E close \in WalkHistories(call.args.test_days) :
          IF close = <<>>
          THEN /\ ret' = <<[exc |-> "No historical data"]>>
               /\ call' = [call EXCEPT !.pc = "done"]
          ELSE IF Len(close) <= call.args.test_days + SpareDays
          THEN /\ ret' = <<[exc |-> "Data too short for evaluation"]>>
               /\ call' = [call EXCEPT !.pc = "done"]
          ELSE /\ call' = [call EXCEPT !.pc = "loop", !.close = close, !.pos = 1]
               /\ UNCHANGED ret
    /\ UNCHANGED service

\* lines 50-119: one iteration of the loop over test_index
WfStep ==
    /\ call.fn = "evaluate_forecast_band"
    /\ call.pc = "loop"
    /\ LET close == call.close
           index == test_index(close, call.args.test_days)
           test_date == index[call.pos]
           train == train_data(close, test_date)
           after == [call EXCEPT !.pos = call.pos + 1,
                                 !.pc = IF call.pos = Len(index) THEN "summary" ELSE "loop"]
       IN IF Len(train) < order_sum(call.args.arima_order) + OrderSpare
          THEN call' = after
          ELSE \E shape \in WalkShapes :
                 LET ci == conf_int(shape, alpha(call.args.conf))
                     b == calibrate(shape.mean, ci[1], ci[2], call.args.scale_factor)
                     fit == [train_end |-> test_date, train_len |-> Len(train),
                             mean |-> shape.mean, conf_int |-> ci]
                 IN IF test_date >= Len(close)
                    THEN call' = [after EXCEPT !.fitted = Append(call.fitted, fit)]
                    ELSE call' = [after EXCEPT
                                    !.fitted = Append(call.fitted, fit),
                                    !.records = Append(call.records,
                                        make_record(test_date, test_date + 1,
                                                    close[test_date + 1], shape.mean, b))]
    /\ UNCHANGED ret
    /\ UNCHANGED service

\* lines 122-167: the data frame, the printed metrics, the return
WfSummary ==
    /\ call.fn = "evaluate_forecast_band"
    /\ call.pc = "summary"
    /\ call' = [call EXCEPT !.pc = "done"]
    /\ IF call.records = <<>>
       THEN ret' = <<[exc |-> "No evaluation records generated"]>>
       ELSE LET df == IF call.args.use_empirical_band
                      THEN empirical_band(call.records, call.args.conf)
                      ELSE call.records
            IN ret' = <<[exc |-> "none", df |-> df, coverage |-> coverage(df),
                         mse |-> Frac(sum_field(df, [r \in {df[k] : k \in 1..Len(df)} |-> r.sq_error]),
                                      Len(df))]>>
    /\ UNCHANGED service

InitWalkForward ==
    /\ Idle
    /\ ret = NoRet
    /\ \E args \in WalkArgs :
          call = [fn |-> "evaluate_forecast_band", args |-> args, pc |-> "fetch",
                  close |-> <<>>, pos |-> 0, records |-> <<>>, fitted |-> <<>>]

NextWalkForward == WfFetch \/ WfStep \/ WfSummary

SpecWalkForward == InitWalkForward /\ [][NextWalkForward]_vars

(***************************************************************************)
(* Properties.                                                             *)
(***************************************************************************)
\* the invocation has left the service function it called
Finished == pc \in {"http_out", "done"}

InsightDone == req.op = "insight" /\ Finished /\ iout.status = "returned"

\* llm_브리핑_생성 gave no brief: the key is missing or the try block failed
\* (metadata["error"] is set in exactly these cases)
LlmFailed == Truthy(llm_brief["error"])

NonEmpty(v) == v.kind \in {"str", "list"} /\ Len(v.items) > 0

ParamMessages == {"horizon must be a positive integer", "horizon exceeds supported window",
                  "conf must be between 0 and 1"}
ShortMessages == {"Not enough data to fit ARIMA model", "Not enough data to evaluate accuracy",
                  "Not enough training data to fit ARIMA model"}

\* C1: when the LLM path is disabled or the LLM call fails, the insight
\* returned records the narrative source as "rule".
C1_RuleSourceOnLlmFailure ==
    (InsightDone /\ LlmFailed) => iout.payload.narrative_source = "rule"

\* the field of the final insight for one of the four keys, and its rule value
RuleValue(k) == IF k = "alerts" THEN rule_alerts ELSE rule_narrative[k]
TextKeys == {"summary", "quick_notes", "actions", "alerts"}

\* C2: each of summary, quick_notes, actions and alerts carries the LLM value
\* when the LLM returned a non-empty value for the key and the rule-based value
\* otherwise; after an LLM failure all four equal the rule-based ones.
C2_FieldwiseFallback ==
    InsightDone =>
        /\ \A k \in TextKeys :
              iout.payload[k] = IF NonEmpty(Get(llm_brief, k)) THEN llm_brief[k]
                                ELSE RuleValue(k)
        /\ LlmFailed => \A k \in TextKeys : iout.payload[k] = RuleValue(k)

C2_Witness ==
    /\ InsightDone
    /\ NonEmpty(Get(llm_brief, "summary"))
    /\ Get(llm_brief, "alerts") = List(<<>>)
    /\ iout.payload.summary = llm_brief["summary"]
    /\ iout.payload.alerts = rule_alerts
    /\ Len(rule_alerts.items) > 0

\* C3: no LLM-side failure makes the LLM call or the insight build raise: the
\* build raises only in its own data checks, before any LLM call, and once the
\* indicators are computed it returns a narrative with all four fields.
C3_LlmFailureNeverRaises ==
    /\ (req.op = "insight" /\ iout.status = "raised") =>
          /\ iout.exc = "ValueError"
          /\ iout.msg \in {"No historical data", "Close series is empty"}
          /\ llm_requests = 0
    /\ (req.op = "insight" /\ Finished /\ iout.status # "raised") =>
          /\ iout.status = "returned"
          /\ \A k \in TextKeys : iout.payload[k].kind # "null"

C3_Witness ==
    /\ InsightDone
    /\ llm_requests = 1
    /\ llm_brief["error"] = Str(<<"AttributeError">>)
    /\ \A k \in TextKeys : iout.payload[k].kind # "null"

\* C4 as stated: on the rule-based path all four text fields are non-empty,
\* with or without a forecast band.
C4_AllFourNonEmpty ==
    (InsightDone /\ LlmFailed) => \A k \in TextKeys : NonEmpty(iout.payload[k])

\* C4 amended: on the rule-based path summary, quick_notes and actions are
\* non-empty, and alerts is non-empty whenever a forecast band is available
\* (without a band it is empty when no threshold is crossed).
C4_RuleFieldsNonEmpty ==
    (InsightDone /\ LlmFailed) =>
        /\ \A k \in {"summary", "quick_notes", "actions"} : NonEmpty(iout.payload[k])
        /\ iout.payload.band.present => NonEmpty(iout.payload.alerts)

C4_Witness ==
    /\ InsightDone /\ LlmFailed
    /\ iout.payload.band.present
    /\ iout.payload.alerts = List(<<"band width">>)

\* C5: the alerts of every returned insight have at most 5 entries, whether
\* they come from the rule-based generator or from the LLM response.
C5_AtMostFiveAlerts ==
    InsightDone => Len(iout.payload.alerts.items) <= AlertLimit

\* C6: get_forecast_band rejects horizon <= 0, horizon > 126 and conf outside
\* (0,1) with an invalid-parameter error, before any history is fetched or any
\* model fitted.
BadParams ==
    \/ fargs.horizon <= 0
    \/ fargs.horizon > 126
    \/ fargs.conf <= 0
    \/ fargs.conf >= 100

C6_BadParamsRejectedEarly ==
    (fargs.caller # "none" /\ pc # "fb_params" /\ BadParams) =>
        /\ fout.status = "raised"
        /\ fout.exc = "ValueError"
        /\ fout.msg \in ParamMessages
        /\ fetches = 0
        /\ fits = 0

C6_Witness ==
    /\ req.op = "forecast" /\ pc = "done"
    /\ fargs.horizon = 127 /\ fargs.conf = 90
    /\ fout.status = "raised" /\ fout.msg = "horizon exceeds supported window"
    /\ fetches = 0

\* C7: for any order (p,d,q), a close series with fewer than p+d+q+5 usable
\* points makes get_forecast_band and evaluate_forecast_accuracy fail with an
\* insufficient-data error (the no-data error when the history is empty), and
\* no model is fitted.
TooShort(order) == CloseLen(hist) < order[1] + order[2] + order[3] + 5

DataMessage(msg) ==
    IF empty(hist) THEN msg = "No historical data found" ELSE msg \in ShortMessages

C7_ShortSeriesRejected ==
    /\ (pc = "fb_fit" \/ (req.op = "forecast" /\ fits > 0)) => ~TooShort(fargs.order)
    /\ (pc = "ev_fit" \/ (req.op = "accuracy" /\ fits > 0)) => ~TooShort(req.order)
    /\ (req.op = "forecast" /\ fetches > 0 /\ pc # "fb_data" /\ TooShort(fargs.order)) =>
          /\ fout.status = "raised" /\ fout.exc = "ValueError" /\ DataMessage(fout.msg)
          /\ fits = 0
    /\ (req.op = "accuracy" /\ fetches > 0 /\ pc # "ev_data" /\ TooShort(req.order)) =>
          /\ aout.status = "raised" /\ aout.exc = "ValueError" /\ DataMessage(aout.msg)
          /\ fits = 0

C7_Witness ==
    /\ req.op = "accuracy" /\ pc = "done"
    /\ req.order = <<2, 1, 2>> /\ req.holdout = 1
    /\ CloseLen(hist) = 9
    /\ aout.status = "raised" /\ aout.msg = "Not enough training data to fit ARIMA model"
    /\ fits = 0

\* C8 as stated: evaluate_forecast_accuracy with holdout_days = 63 and order
\* (1,1,1) passes its data checks on exactly 64 closes and fails with an
\* insufficient-data error on exactly 63 closes.
DefaultEvaluation ==
    /\ req.op = "accuracy" /\ Finished
    /\ req.holdout = 63 /\ req.order = <<1, 1, 1>>
    /\ fetches = 1

InsufficientData(out) ==
    out.status = "raised" /\ out.exc = "ValueError" /\ out.msg \in ShortMessages /\ fits = 0

C8_Boundary64Succeeds ==
    DefaultEvaluation =>
        /\ CloseLen(hist) = 64 => (fits = 1 /\ aout.msg \notin ShortMessages)
        /\ (CloseLen(hist) = 63 /\ ~empty(hist)) => InsufficientData(aout)

\* C8 amended: with holdout_days = 63 and order (1,1,1) the evaluation fails with
\* an insufficient-data error on exactly 63 closes and also on exactly 64 closes
\* (one training point, fewer than the 8 the order needs); the data checks pass,
\* and the report has test_points = 63, from exactly 71 closes on.
C8_BoundaryIs71 ==
    DefaultEvaluation =>
        /\ (CloseLen(hist) \in 1..70 /\ ~empty(hist)) => InsufficientData(aout)
        /\ CloseLen(hist) >= 71 =>
              /\ fits = 1 /\ aout.msg \notin ShortMessages
              /\ aout.status = "returned" => aout.test_points = 63

C8_Witness ==
    /\ DefaultEvaluation
    /\ CloseLen(hist) = 71
    /\ aout.status = "returned" /\ aout.test_points = 63 /\ aout.train_points = 8

C10_ClientErrorsAre4xx ==
    (req.via = "http" /\ pc = "done" /\ response.status_code # 200) =>
        IF ServiceOutcome.exc = "ModelFitError"
        THEN response.status_code >= 500
        ELSE response.status_code >= 400 /\ response.status_code < 500

\* get_forecast_band has returned its rows and the caller still holds them
ForecastHeld == fout.status = "returned" /\ (req.op = "forecast" \/ pc = "in_band")

\* the day number a formatted date "YYYY-MM-DD" stands for
RECURSIVE days_before(_, _)
days_before(y, m) ==
    IF m > 1 THEN month_days(y)[m - 1] + days_before(y, m - 1)
    ELSE IF y > 2024 THEN month_days(y - 1)[12] + days_before(y - 1, 12)
    ELSE 0

date_of(t) == days_before(t[1], t[2]) + t[3]

Weekend(d) == (d - 1) % 7 \in {5, 6}

\* the formatted date s sorts before the formatted date t
DateBefore(s, t) ==
    \/ s[1] < t[1]
    \/ s[1] = t[1] /\ s[2] < t[2]
    \/ s[1] = t[1] /\ s[2] = t[2] /\ s[3] < t[3]

\* C11: on success get_forecast_band returns exactly `horizon` points whose
\* dates are strictly increasing consecutive business days (never a Saturday or
\* Sunday, no business day skipped), the first being the first business day
\* strictly after the last observed date, whatever weekday that date is.
C11_ConsecutiveBusinessDays ==
    ForecastHeld =>
        LET pts == fout.points
            day(i) == date_of(pts[i].time)
        IN /\ Len(pts) = fargs.horizon
           /\ \A i \in 1..Len(pts) : ~Weekend(day(i))
           /\ day(1) > hist.last
           /\ \A d \in (hist.last + 1)..(day(1) - 1) : Weekend(d)
           /\ \A i \in 1..(Len(pts) - 1) :
                 /\ day(i) < day(i + 1)
                 /\ DateBefore(pts[i].time, pts[i + 1].time)
                 /\ \A d \in (day(i) + 1)..(day(i + 1) - 1) : Weekend(d)

C11_Witness ==
    /\ req.op = "forecast" /\ pc = "done" /\ fout.status = "returned"
    /\ hist.last = FirstLastDay + 4
    /\ Len(fout.points) = max_horizon
    /\ fout.points[1].time = <<2024, 12, 30>>
    /\ fout.points[6].time = <<2025, 1, 6>>

\* C12: every point returned by get_forecast_band has lower <= mean <= upper,
\* for every valid horizon, confidence level and sufficiently long series.
C12_BandOrdered ==
    ForecastHeld =>
        \A i \in 1..Len(fout.points) :
            /\ fout.points[i].lower <= fout.points[i].mean
            /\ fout.points[i].mean <= fout.points[i].upper

C12_Witness ==
    /\ req.op = "forecast" /\ pc = "done" /\ fout.status = "returned"
    /\ fargs.conf = 50 /\ fargs.order = <<2, 1, 2>>
    /\ Len(fout.points) = max_horizon
    /\ \A i \in 1..Len(fout.points) :
          fout.points[i].lower < fout.points[i].mean /\ fout.points[i].mean < fout.points[i].upper

\* _변동성점수_계산 has been applied to both volatilities of the pair
VolatilityScored == call.fn = "volatility_score" /\ Len(ret) = 2

\* C13: _변동성점수_계산 is monotonically non-decreasing in hv20_pct, rounding
\* included, and hits its knots exactly: 5 -> 10, 15 -> 30, 30 -> 55, 45 -> 70,
\* 60 -> 88 and 90 -> 100.
C13_MonotoneWithExactKnots ==
    VolatilityScored =>
        /\ (~call.args[1].nan /\ ~call.args[2].nan /\ call.args[1].x <= call.args[2].x)
              => ret[1] <= ret[2]
        /\ \A n \in 1..2 :
              /\ call.args[n] = Float(5 * HvUnit) => ret[n] = 10
              /\ call.args[n] = Float(15 * HvUnit) => ret[n] = 30
              /\ call.args[n] = Float(30 * HvUnit) => ret[n] = 55
              /\ call.args[n] = Float(45 * HvUnit) => ret[n] = 70
              /\ call.args[n] = Float(60 * HvUnit) => ret[n] = 88
              /\ call.args[n] = Float(90 * HvUnit) => ret[n] = 100

C13_Witness ==
    /\ VolatilityScored
    /\ call.args = <<Float(50 * HvUnit), Float(60 * HvUnit)>>
    /\ ret = <<76, 88>>

\* C14: outside the knot range [5, 90] _변동성점수_계산 gives 0 for an hv20_pct
\* below 5 and 100 for an hv20_pct above 90.
C14_ZeroBelowHundredAbove ==
    VolatilityScored =>
        \A n \in 1..2 :
            ~call.args[n].nan =>
                /\ call.args[n].x < 5 * HvUnit => ret[n] = 0
                /\ call.args[n].x > 90 * HvUnit => ret[n] = 100

\* the score set of a snapshot has been computed
ScoresComputed == call.fn = "score_set" /\ Len(ret) = 1

\* C15: trend_score, momentum_score, volatility_score and confidence are each
\* an integer in [0,100] for every snapshot, also one with a fractional, extreme
\* or NaN momentum, volatility or moving average; none is NaN and no scoring
\* step raises.
C15_ScoresAreIntegers ==
    ScoresComputed =>
        /\ ret[1].exc = "None"
        /\ ret[1].trend_score \in 0..100
        /\ ~ret[1].momentum_score.nan
        /\ ret[1].momentum_score.x % 10 = 0
        /\ ret[1].momentum_score.x \div 10 \in 0..100
        /\ ret[1].volatility_score \in 0..100
        /\ ret[1].confidence \in 0..100

\* C16: two invocations of _기술지표_계산 on identical input series return
\* snapshots equal in every field, whatever the state of any external service
\* and whenever they are made.
C16_SameSeriesSameSnapshot ==
    (call.fn = "compute_indicators" /\ Len(ret) = 2 /\ call.args[1] = call.args[2]) =>
        ret[1] = ret[2]

\* the kinds of alert in the order _알림_리스트 generates them
AlertOrder == <<"band upper", "band lower", "band width", "momentum", "extreme volatility",
                "macd", "rsi", "volume surge", "vkospi">>

AlertKind(a) ==
    CASE a \in {"momentum up", "momentum down"} -> "momentum"
      [] a \in {"macd up", "macd down"} -> "macd"
      [] a \in {"rsi overbought", "rsi oversold"} -> "rsi"
      [] OTHER -> a

AlertRank(kind) == CHOOSE k \in 1..Len(AlertOrder) : AlertOrder[k] = kind

\* the kinds whose condition holds for the snapshot i and the band summary b
TriggeredKinds(i, b) ==
    {kind \in {AlertOrder[k] : k \in 1..Len(AlertOrder)} :
        CASE kind = "band upper" -> b.present /\ 100 * (b.upper - i.close) < 6 * i.close
          [] kind = "band lower" -> b.present /\ 100 * (i.close - b.lower) < 6 * b.lower
          [] kind = "band width" -> b.present
          [] kind = "momentum" -> i.momentum20_pct > 5 \/ i.momentum20_pct < 0 - 5
          [] kind = "extreme volatility" -> i.hv20_pct > 45
          [] kind = "macd" -> i.macd_hist # 0
          [] kind = "rsi" -> i.rsi14 >= 70 \/ i.rsi14 <= 30
          [] kind = "volume surge" -> i.volume_ratio_pct > 40
          [] OTHER -> i.vkospi_ok /\ i.vkospi_change_pct > 5}

AlertsListed == call.fn = "alert_list" /\ Len(ret) = 1

\* C17: the list _알림_리스트 returns is exactly the first min(5, n) of the n
\* triggered alerts in the generation order band upper, band lower, band
\* width, momentum, volatility, MACD, RSI, volume, VKOSPI: order is kept and no
\* later alert is kept while an earlier triggered one is dropped.
C17_FirstFiveInGenerationOrder ==
    AlertsListed =>
        LET kept == ret[1].items
            triggered == TriggeredKinds(call.args[1].ind, call.args[1].band)
            rank(k) == AlertRank(AlertKind(kept[k]))
        IN /\ Len(kept) = Min(5, Cardinality(triggered))
           /\ \A k \in 1..Len(kept) : AlertKind(kept[k]) \in triggered
           /\ \A k \in 1..(Len(kept) - 1) : rank(k) < rank(k + 1)
           /\ \A kind \in triggered :
                 (\A k \in 1..Len(kept) : AlertKind(kept[k]) # kind) =>
                     \A k \in 1..Len(kept) : rank(k) < AlertRank(kind)

C17_Witness ==
    /\ AlertsListed
    /\ Cardinality(TriggeredKinds(call.args[1].ind, call.args[1].band)) = 9
    /\ ret[1].items = <<"band upper", "band lower", "band width", "momentum down",
                        "extreme volatility">>

NarrativeWritten == call.fn = "write_narrative" /\ Len(ret) = 1

\* the SMA20/SMA60 gap of the snapshot is above 1% (bullish), below -1% (bearish)
GapAbove1(i) == ~i.sma_nan /\ i.sma60 > 0 /\ 100 * (i.sma20 - i.sma60) > i.sma60
GapBelowMinus1(i) == ~i.sma_nan /\ i.sma60 > 0 /\ 100 * (i.sma20 - i.sma60) < 0 - i.sma60

\* C18: the rule-based narrative has exactly 3 actions, all of one of the two
\* template sets: the bullish set when the trend bias from the SMA20/SMA60 gap
\* is bullish, the bearish set when it is bearish; the sets are never mixed.
C18_ActionsFromOneSet ==
    NarrativeWritten =>
        LET actions == ret[1].actions.items
        IN /\ Len(actions) = 3
           /\ actions \in {up_actions, down_actions}
           /\ GapAbove1(call.args[1].ind) => actions = up_actions
           /\ GapBelowMinus1(call.args[1].ind) => actions = down_actions

C18_Witness ==
    /\ NarrativeWritten
    /\ call.args[1].ind.sma20 = 98 /\ call.args[1].ind.sma60 = 100
    /\ ret[1].actions.items = down_actions

\* the snapshot's moving averages as the scores read them
SmaFloats(i) ==
    [sma20 |-> IF i.sma_nan THEN NaN ELSE Float(i.sma20),
     sma60 |-> IF i.sma_nan THEN NaN ELSE Float(i.sma60)]

\* realized volatility that by itself gives the lowest risk label
LowVolatility(i) == i.hv20_pct <= 25

\* C19 as stated: whenever SMA20 > SMA60 (trend_score 70), as for 300 closes
\* rising from 100 to 130, the narrative's actions are the bullish set, and
\* with low realized volatility risk_label is not "high" (높음).
C19_UptrendBullishActions ==
    (NarrativeWritten /\ trend_score(SmaFloats(call.args[1].ind)) = 70) =>
        /\ ret[1].actions.items = up_actions
        /\ LowVolatility(call.args[1].ind) => ret[1].risk_label # Str(<<"high">>)

\* C19 amended: whenever SMA20 exceeds SMA60 by more than 1%, as for 300 closes
\* rising from 100 to 130 (gap 1.6%), the actions are the bullish set; with
\* SMA20 above SMA60 by at most 1% trend_score is 70 all the same and the
\* actions are the bearish set; risk_label is not "high" when hv20_pct <= 45 and
\* the maximum drawdown is no deeper than 25%, as for a series that only rises.
C19_GapAboveOnePercentBullish ==
    NarrativeWritten =>
        LET i == call.args[1].ind
        IN /\ GapAbove1(i) =>
                 trend_score(SmaFloats(i)) = 70 /\ ret[1].actions.items = up_actions
           /\ (trend_score(SmaFloats(i)) = 70 /\ ~GapAbove1(i)) =>
                 ret[1].actions.items = down_actions
           /\ (i.hv20_pct <= 45 /\ i.mdd_pct >= 0 - 25) => ret[1].risk_label # Str(<<"high">>)
           /\ (i.hv20_pct > 45 \/ i.mdd_pct < 0 - 25) => ret[1].risk_label = Str(<<"high">>)

C19_Witness ==
    /\ NarrativeWritten
    /\ call.args[1].ind.sma20 = SmaOf(RisingCloses).sma20
    /\ call.args[1].ind.sma60 = SmaOf(RisingCloses).sma60
    /\ call.args[1].ind.hv20_pct = 0 /\ call.args[1].ind.mdd_pct = 0
    /\ trend_score(SmaFloats(call.args[1].ind)) = 70
    /\ ret[1].actions.items = up_actions
    /\ ret[1].risk_label = Str(<<"low">>)

WalkDone == call.fn = "evaluate_forecast_band" /\ call.pc = "done" /\ ret[1].exc = "none"

\* the fit the record of train_end was forecast from
FitOf(train_end) ==
    call.fitted[CHOOSE k \in 1..Len(call.fitted) : call.fitted[k].train_end = train_end]

\* the actual lies within the parametric confidence interval of the record's fit
WithinParametric(r) ==
    /\ FitOf(r.train_end).conf_int[1] <= r.actual
    /\ r.actual <= FitOf(r.train_end).conf_int[2]

\* C20: with use_empirical_band off and scale_factor = 1.0 every record's lower
\* and upper are the model's parametric interval, and the reported coverage is
\* the percentage of evaluated points whose actual lies within that interval.
C20_CoverageOfParametricBand ==
    (WalkDone /\ ~call.args.use_empirical_band /\ call.args.scale_factor = 1) =>
        LET df == ret[1].df
            within == {k \in 1..Len(df) : WithinParametric(df[k])}
        IN /\ \A k \in 1..Len(df) :
                 /\ df[k].lower = Frac(FitOf(df[k].train_end).conf_int[1], 1)
                 /\ df[k].upper = Frac(FitOf(df[k].train_end).conf_int[2], 1)
           /\ ret[1].coverage.num * Len(df) = 100 * Cardinality(within) * ret[1].coverage.den

\* three points evaluated, one of them on the lower bound of its interval, one
\* outside its interval
C20_Witness ==
    /\ WalkDone /\ ~call.args.use_empirical_band /\ call.args.scale_factor = 1
    /\ Len(ret[1].df) = 3
    /\ \E k \in 1..3 : ret[1].df[k].actual = 97 /\ ret[1].df[k].lower = Frac(97, 1)
    /\ \E k \in 1..3 : ~ret[1].df[k].inside_band
    /\ ret[1].coverage = Frac(200, 3)

WalkLooping == call.fn = "evaluate_forecast_band" /\ call.pc \in {"loop", "summary", "done"}

\* C21: every evaluation record comes from a model fitted on the observations
\* dated at or before its train_end only, its forecast_date is the observation
\* right after train_end and its actual is that observation; no observation
\* dated at or after forecast_date is in the training data of the record.
C21_NoLookAhead ==
    WalkLooping =>
        \A k \in 1..Len(call.records) :
            LET r == call.records[k]
                trained == 1..FitOf(r.train_end).train_len
            IN /\ trained = {d \in 1..Len(call.close) : d <= r.train_end}
               /\ r.forecast_date = r.train_end + 1
               /\ r.forecast_date \in 1..Len(call.close)
               /\ r.actual = call.close[r.forecast_date]
               /\ \A d \in trained : d < r.forecast_date

\* three records, each forecast from a fit on a longer training series
C21_Witness ==
    /\ WalkDone
    /\ Len(call.records) = 3
    /\ \A k \in 1..3 : FitOf(call.records[k].train_end).train_len = SpareDays + 1 + k
    /\ call.records[3].forecast_date = Len(call.close)

\* the evaluator has finished on a series that passed the length check
WalkChecked == call.fn = "evaluate_forecast_band" /\ call.pc = "done" /\ call.close # <<>>

\* C22: on a series that passes the length check each of the last test_days
\* observations is scored exactly once against a 1-step-ahead forecast: the
\* evaluation has test_days records, their forecast dates are the last
\* test_days observations, and the denominator of coverage is test_days.
C22_EveryTestDayScored ==
    WalkChecked =>
        /\ ret[1].exc = "none"
        /\ Len(ret[1].df) = call.args.test_days
        /\ {ret[1].df[k].forecast_date : k \in 1..Len(ret[1].df)}
               = {d \in 1..Len(call.close) : d > Len(call.close) - call.args.test_days}
        /\ ret[1].coverage.den = call.args.test_days

KeyMissing == llm_brief["error"] = Str(<<"OPENAI_API_KEY missing">>)

\* C23: one insight build sends at most one request to the LLM service: none
\* when the API key is absent (attempted stays false and the build returns its
\* insight), exactly one otherwise, and a request that failed is not repeated.
C23_AtMostOneLlmRequest ==
    /\ llm_requests <= 1
    /\ (llm_requests = 1) => req.op = "insight"
    /\ InsightDone =>
          /\ KeyMissing =>
                /\ llm_requests = 0
                /\ llm_brief["attempted"] = Bool(FALSE)
                /\ iout.status = "returned"
          /\ ~KeyMissing =>
                /\ llm_requests = 1
                /\ llm_brief["attempted"] = Bool(TRUE)

\* a request that failed with a server error, sent once
C23_Witness ==
    /\ InsightDone
    /\ llm_brief["http_status"] = Num(500)
    /\ llm_brief["error"] = Str(<<"RuntimeError">>)
    /\ llm_requests = 1

AccuracySucceeded == req.op = "accuracy" /\ Finished /\ aout.status = "returned"

\* C24: a successful evaluate_forecast_accuracy has fitted the model exactly
\* once, on the closes before the last holdout_days only, forecast holdout_days
\* steps and compared them with the last holdout_days closes: test_points is
\* holdout_days, and training and held-out closes together are the series, so
\* no held-out close is part of the training data.
C24_SingleFitOnTrainOnly ==
    AccuracySucceeded =>
        /\ fits = 1
        /\ aout.holdout_days = req.holdout
        /\ aout.test_points = req.holdout
        /\ aout.train_points = CloseLen(hist) - req.holdout
        /\ aout.train_points + aout.test_points = CloseLen(hist)

C24_Witness ==
    /\ AccuracySucceeded
    /\ req.holdout = DefaultHoldout
    /\ CloseLen(hist) = DefaultHoldout + 8
    /\ aout.train_points = 8
    /\ aout.test_points = DefaultHoldout
    /\ fits = 1

\* a snapshot was computed from the series args[1]
SnapshotComputed ==
    call.fn = "compute_indicators" /\ Len(ret) >= 1 /\ ret[1].exc = "None"

\* the moves of the last 14 positions of the series: some gain, some loss
LastGains(close) == \E k \in 2..Len(close) : k > Len(close) - 14 /\ close[k] > close[k - 1]
LastLosses(close) == \E k \in 2..Len(close) : k > Len(close) - 14 /\ close[k] < close[k - 1]

\* C25: rsi14 of every snapshot of a non-empty series is a number in [0, 100],
\* never NaN (a window without any price change included): 50 when there are
\* fewer than 14 closes, 100 when the 14-day window has gains and no losses.
C25_RsiBoundedNeverNaN ==
    SnapshotComputed =>
        LET close == call.args[1]
            rsi == ret[1].rsi14
        IN /\ ~rsi.nan
           /\ rsi.den > 0 /\ 0 <= rsi.num /\ rsi.num <= 100 * rsi.den
           /\ Len(close) < 14 => rsi = Frac(50, 1)
           /\ (Len(close) >= 14 /\ LastGains(close) /\ ~LastLosses(close)) => rsi = Frac(100, 1)

\* the largest of the first k closes
RECURSIVE RunningMax(_, _)
RunningMax(close, k) ==
    IF k = 1 THEN close[1] ELSE Max(close[k], RunningMax(close, k - 1))

\* C27: mdd_pct of a non-empty series of positive closes is <= 0, is the least
\* over all positions of close / running_max(close) - 1 in percent, and is 0
\* exactly when no close is below the running maximum.
C27_MddIsLeastDrawdown ==
    SnapshotComputed =>
        LET close == call.args[1]
            mdd == ret[1].mdd_pct
            \* mdd <= (resp. =) the drawdown at position j, cross-multiplied
            AtMost(j) == mdd.num * RunningMax(close, j)
                             <= 100 * (close[j] - RunningMax(close, j)) * mdd.den
            Equal(j) == mdd.num * RunningMax(close, j)
                             = 100 * (close[j] - RunningMax(close, j)) * mdd.den
        IN /\ ~mdd.nan /\ mdd.den > 0
           /\ mdd.num <= 0
           /\ \A j \in 1..Len(close) : AtMost(j)
           /\ \E j \in 1..Len(close) : Equal(j)
           /\ (mdd.num = 0) <=> (\A j \in 1..Len(close) : close[j] >= RunningMax(close, j))

\* 200, 50, 100: the deepest drawdown, -75%, is not the last one
C27_Witness ==
    /\ SnapshotComputed
    /\ call.args[1] = <<200, 50, 100>>
    /\ ret[1].mdd_pct = Frac(0 - 15000, 200)

ConfidenceScored == call.fn = "confidence_score" /\ Len(ret) = 2

\* the argument list b is the list a with the argument f made larger
Raised(a, b, f) ==
    /\ \A g \in DOMAIN a : g # f => a[g] = b[g]
    /\ IF f = "band_range"
       THEN a[f].num * b[f].den < b[f].num * a[f].den
       ELSE a[f] < b[f]

\* C28: with the other arguments fixed the confidence score does not rise with
\* band_range_pct or volatility_score and does not fall with trend_score,
\* momentum_score or liquidity_bonus; the band penalty is 0 for a missing, zero
\* or negative band range and at most 15 points, and the volatility penalty is
\* 0 while volatility_score <= 60.
C28_ConfidenceMonotone ==
    ConfidenceScored =>
        LET a == call.args[1]
            b == call.args[2]
        IN /\ \A f \in {"band_range", "volatility"} : Raised(a, b, f) => ret[2] <= ret[1]
           /\ \A f \in {"trend", "momentum", "liquidity"} : Raised(a, b, f) => ret[2] >= ret[1]
           /\ a.band_range.num <= 0 => band_penalty(a.band_range) = 0
           /\ 0 <= band_penalty(a.band_range)
           /\ band_penalty(a.band_range) <= 15 * a.band_range.den
           /\ a.volatility <= 60 => volatility_penalty(a.volatility) = 0
           /\ a.band_range.num <= 0 =>
                 ret[1] = confidence_score(a.trend, Float(a.momentum), a.volatility,
                                           [num |-> 0, den |-> 1], a.liquidity).score

\* a volatility score raised from 60 to 76 lowers the confidence from 63 to 57
C28_Witness ==
    /\ ConfidenceScored
    /\ Raised(call.args[1], call.args[2], "volatility")
    /\ call.args[1].volatility = 60 /\ call.args[2].volatility = 76
    /\ call.args[1].trend = 45 /\ call.args[1].momentum = 500
    /\ call.args[1].band_range.num = 0 /\ call.args[1].liquidity = 22
    /\ ret = <<63, 57>>

\* an insight build has ended and its forecast-band generation had failed
BandFailed == req.op = "insight" /\ Finished /\ fout.status = "raised"

BandAlerts == {"band upper", "band lower", "band width"}

MissingBandPhrase(text) ==
    text.kind = "str" /\ \E k \in 1..Len(text.items) : text.items[k] = "no band information"

NoBandAlert(list) ==
    list.kind = "list" /\ \A k \in 1..Len(list.items) : list.items[k] \notin BandAlerts

\* C29 as stated: when forecast-band generation fails during an insight build,
\* the build still returns an insight, with band = null, a band range of 0 (no
\* band penalty), the summary phrase for missing band information and no
\* band-derived alerts.
C29_BandFailureInsight ==
    BandFailed =>
        /\ iout.status = "returned"
        /\ ~iout.payload.band.present
        /\ band_penalty(band_range_pct(band)) = 0
        /\ MissingBandPhrase(iout.payload.summary)
        /\ NoBandAlert(iout.payload.alerts)

\* C29 amended: when forecast-band generation fails during an insight build,
\* the build still returns an insight, with band = null and a band range of 0
\* (no band penalty); the rule-based summary has the phrase for missing band
\* information and the rule-based alerts have no band-derived alert, and these
\* are the returned summary and alerts unless the LLM supplied its own.
C29_BandFailureRuleBased ==
    BandFailed =>
        /\ iout.status = "returned"
        /\ ~iout.payload.band.present
        /\ ~band.present
        /\ band_range_pct(band).num = 0
        /\ band_penalty(band_range_pct(band)) = 0
        /\ MissingBandPhrase(rule_narrative.summary)
        /\ NoBandAlert(rule_alerts)
        /\ ~Truthy(Get(llm_brief, "summary")) => MissingBandPhrase(iout.payload.summary)
        /\ ~Truthy(Get(llm_brief, "alerts")) => iout.payload.alerts = rule_alerts

\* the model fit failed inside the band summary and the LLM call failed too
C29_Witness ==
    /\ BandFailed
    /\ fout.exc = "ModelFitError"
    /\ LlmFailed
    /\ iout.status = "returned"
    /\ ~iout.payload.band.present
    /\ MissingBandPhrase(iout.payload.summary)
    /\ Len(iout.payload.alerts.items) > 0

\* the label the rule gives the indicators: 높음, 중간 or 낮음
RuleLabel(i) ==
    IF i.hv20_pct > 45 \/ i.mdd_pct < 0 - 25 THEN "high"
    ELSE IF i.hv20_pct > 25 THEN "mid"
    ELSE "low"

\* C30: the risk_label of the returned insight is the rule-based label of the
\* indicators alone (high if hv20_pct > 45 or mdd_pct < -25, else mid if
\* hv20_pct > 25, else low), one of these three values, whatever the LLM returns.
C30_RiskLabelRuleBased ==
    InsightDone =>
        /\ iout.payload.risk_label = Str(<<RuleLabel(ind)>>)
        /\ iout.payload.risk_label \in {Str(<<"high">>), Str(<<"mid">>), Str(<<"low">>)}

\* the LLM supplied the narrative; the label is high for the drawdown alone
C30_Witness ==
    /\ InsightDone
    /\ iout.payload.narrative_source = "openai"
    /\ Truthy(Get(llm_brief, "summary"))
    /\ iout.payload.summary = Get(llm_brief, "summary")
    /\ ind.hv20_pct = 10 /\ ind.mdd_pct = 0 - 30
    /\ iout.payload.risk_label = Str(<<"high">>)

\* the decision-insight endpoint has answered with an insight
InsightAnswered ==
    req.op = "insight" /\ req.via = "http" /\ pc = "done" /\ response.status_code = 200

\* the fields of the produced insight payload
InsightFields ==
    {"symbol", "last_price", "change_rate", "volatility_score", "confidence_score",
     "risk_label", "band", "summary", "quick_notes", "actions", "alerts", "indicators"}

\* C26: the payload the decision-insight endpoint delivers has every one of the
\* fields symbol, last_price, change_rate, volatility_score, confidence_score,
\* risk_label, band, summary, quick_notes, actions, alerts and indicators, each
\* with the value the insight builder gave it.
C26_PayloadFieldsDelivered ==
    InsightAnswered =>
        /\ InsightFields \subseteq DOMAIN response.body
        /\ \A k \in InsightFields \cap DOMAIN iout.payload :
              k \in DOMAIN response.body /\ response.body[k] = iout.payload[k]

====
